---------------------------- MODULE Spec2Model ----------------------------
(***************************************************************************)
(* Model of luminnexus_alchemy_shared:                                     *)
(*   html/markdown_converter.py   HTMLToMarkdownConverter and its passes    *)
(*   converters/type_converters.py safe_decimal, safe_int, safe_str         *)
(*                                                                         *)
(* Text is a sequence of one-character strings.  A character reference is   *)
(* one token of the sequence ("&#32;" is the reference to a space,          *)
(* "&amp;#32;" the same reference with its ampersand escaped).              *)
(* A node of the parsed tree is a record                                   *)
(*   [tag, text, colspan, href, kids]                                      *)
(* with tag = "#text" for a NavigableString.                               *)
(***************************************************************************)
EXTENDS Integers, Sequences, FiniteSets, TLC

VARIABLES
    content,    \* convert_html's argument: [kind, markup]
    selector,   \* convert_html's container_selector
    config,     \* self.config, a ConversionConfig
    soup,       \* the tree the passes rewrite in place (the selected container)
    pc,         \* position inside convert_html / convert_html_soup
    exc,        \* the exception in flight, "none" when there is none
    log,        \* records handed to self.logger by the call in progress
    result,     \* the string convert_html returned, NoResult before it returns
    value,      \* argument of a type converter call
    fn,         \* the type converter called
    ret,        \* what the type converter call did: a return value or a raise
    rich_table, \* the rich Table convert_html_to_table builds: columns, rows
    session     \* the converter instance in use and the calls it and the
                \* instances before it have finished

vars == <<content, selector, config, soup, pc, exc, log, result, value, fn, ret, rich_table, session>>

---------------------------------------------------------------------------
(* Bounds of the model                                                     *)

MaxRows == 2
MaxLen == 5
MaxBlocks == 2
MaxCalls == 2

---------------------------------------------------------------------------
(* Strings                                                                 *)

SP == " "
NL == "\n"
TAB == "\t"
\* the backquote character, which a TLA+ string cannot hold
BackTick == "backquote"

\* what str.strip() removes and what \s matches
Whitespace == {SP, NL, TAB}

IsSpace(c) == c \in Whitespace

\* the element of a singleton set.  Only(\{body : x \in \{e\}\}) is body with x
\* bound to the value of e, e being evaluated once
Only(S) == CHOOSE x \in S : TRUE

\* the index of the first character of s at or after i that is no whitespace
RECURSIVE FirstNonSpace(_, _)
FirstNonSpace(s, i) ==
    IF i <= Len(s) /\ IsSpace(s[i]) THEN FirstNonSpace(s, i + 1) ELSE i

\* the index of the last character of s at or before i that is no whitespace
RECURSIVE LastNonSpace(_, _)
LastNonSpace(s, i) ==
    IF i >= 1 /\ IsSpace(s[i]) THEN LastNonSpace(s, i - 1) ELSE i

\* str.strip()
strip(s) ==
    Only({SubSeq(t, FirstNonSpace(t, 1), LastNonSpace(t, Len(t))) : t \in {s}})

RECURSIVE ConcatFrom(_, _)
ConcatFrom(ss, i) == IF i > Len(ss) THEN <<>> ELSE ss[i] \o ConcatFrom(ss, i + 1)

Concat(ss) == Only({ConcatFrom(t, 1) : t \in {ss}})

RECURSIVE JoinFrom(_, _, _)
JoinFrom(sep, parts, i) ==
    IF i > Len(parts) THEN <<>>
    ELSE IF i = Len(parts) THEN parts[i]
    ELSE parts[i] \o sep \o JoinFrom(sep, parts, i + 1)

\* sep.join(parts)
join(sep, parts) == Only({JoinFrom(sep, t, 1) : t \in {parts}})

\* s * n
RECURSIVE Repeat(_, _)
Repeat(s, n) == IF n <= 0 THEN <<>> ELSE s \o Repeat(s, n - 1)

\* the pieces of s between separators, from the piece that starts at index
\* from on; i scans for the next separator
RECURSIVE SplitFrom(_, _, _, _)
SplitFrom(s, sep, from, i) ==
    IF i > Len(s) THEN <<SubSeq(s, from, Len(s))>>
    ELSE IF s[i] = sep
    THEN <<SubSeq(s, from, i - 1)>> \o SplitFrom(s, sep, i + 1, i + 1)
    ELSE SplitFrom(s, sep, from, i + 1)

\* str.split(sep) for a one-character separator
split(s, sep) == Only({SplitFrom(t, sep, 1, 1) : t \in {s}})

\* sub in s
Contains(sub, s) ==
    \E i \in 0..(Len(s) - Len(sub)) : SubSeq(s, i + 1, i + Len(sub)) = sub

DigitChars == <<"0", "1", "2", "3", "4", "5", "6", "7", "8", "9">>

IsDigit(c) == \E d \in 1..10 : DigitChars[d] = c

DigitVal(c) == (CHOOSE d \in 1..10 : DigitChars[d] = c) - 1

\* str(i) for an int i >= 0
RECURSIVE IntToStr(_)
IntToStr(i) == IF i < 10 THEN <<DigitChars[i + 1]>>
               ELSE IntToStr(i \div 10) \o <<DigitChars[(i % 10) + 1]>>

---------------------------------------------------------------------------
(* _clean_and_format                                                       *)

\* the last index of the run of whitespace that starts at index i (i - 1 if none)
RECURSIVE RunEnd(_, _)
RunEnd(s, i) == IF i <= Len(s) /\ IsSpace(s[i]) THEN RunEnd(s, i + 1) ELSE i - 1

\* re.sub(r"\n\s*\n", "\n\n", text), scanning from index i: leftmost match,
\* \s* greedy, so a match runs to the last newline of the whitespace run
RECURSIVE SubBlankLinesFrom(_, _)
SubBlankLinesFrom(s, i) ==
    IF i > Len(s) THEN <<>>
    ELSE IF s[i] = NL
              /\ \E j \in (i + 1)..RunEnd(s, i + 1) : s[j] = NL
         THEN LET j == CHOOSE k \in (i + 1)..RunEnd(s, i + 1) :
                           s[k] = NL
                           /\ \A m \in (k + 1)..RunEnd(s, i + 1) : s[m] # NL
              IN <<NL, NL>> \o SubBlankLinesFrom(s, j + 1)
         ELSE <<s[i]>> \o SubBlankLinesFrom(s, i + 1)

SubBlankLines(s) == Only({SubBlankLinesFrom(t, 1) : t \in {s}})

\* re.sub(r" +", " ", text), from index i: a space followed by a space is dropped
RECURSIVE SubSpacesFrom(_, _)
SubSpacesFrom(s, i) ==
    IF i > Len(s) THEN <<>>
    ELSE IF s[i] = SP /\ i < Len(s) /\ s[i + 1] = SP THEN SubSpacesFrom(s, i + 1)
    ELSE <<s[i]>> \o SubSpacesFrom(s, i + 1)

SubSpaces(s) == Only({SubSpacesFrom(t, 1) : t \in {s}})

\* one character reference decoded, as html.unescape and the parser decode it
UnescapeToken(c) ==
    CASE c = "&#32;" -> SP
      [] c = "&amp;" -> "&"
      [] c = "&amp;#32;" -> "&#32;"
      [] OTHER -> c

\* html.unescape(text): one pass, every reference decoded once
unescape(s) == Only({[i \in 1..Len(t) |-> UnescapeToken(t[i])] : t \in {s}})

\* the cleanup without its final newline
clean_and_format_no_newline(text) ==
    strip(unescape(SubSpaces(SubBlankLines(text))))

\* the cleanup that strips before it decodes the character references
clean_and_format_strip_first(text) ==
    unescape(strip(SubSpaces(SubBlankLines(text)))) \o <<NL>>

clean_and_format(text) ==
    strip(unescape(SubSpaces(SubBlankLines(text)))) \o <<NL>>

---------------------------------------------------------------------------
(* The parsed tree (bs4)                                                   *)

TextTag == "#text"
RootTag == "[document]"

\* an attribute the element does not carry
Absent == <<"#absent">>

\* a NavigableString
Text(s) == [tag |-> TextTag, text |-> s, colspan |-> Absent, href |-> Absent,
            kids |-> <<>>]

\* a Tag
Elem(t, ks) == [tag |-> t, text |-> <<>>, colspan |-> Absent, href |-> Absent,
                kids |-> ks]

IsText(n) == n.tag = TextTag

\* Tag.get_text(): the text nodes under n, in document order, concatenated
RECURSIVE get_text(_)
RECURSIVE KidsText(_, _)
KidsText(ks, i) == IF i > Len(ks) THEN <<>>
                   ELSE get_text(ks[i]) \o KidsText(ks, i + 1)
get_text(n) == IF IsText(n) THEN n.text ELSE KidsText(n.kids, 1)

\* Tag.find_all(tags): the descendants of n (never n itself) whose tag is in
\* tags, in document order; a match's own descendants are searched too
RECURSIVE find_all(_, _)
RECURSIVE FindInKids(_, _, _)
FindInKids(ks, i, tags) ==
    IF i > Len(ks) THEN <<>>
    ELSE (IF ks[i].tag \in tags THEN <<ks[i]>> ELSE <<>>)
         \o find_all(ks[i], tags) \o FindInKids(ks, i + 1, tags)
find_all(n, tags) == FindInKids(n.kids, 1, tags)

\* find_all(tags) without recursive=False: every descendant
find_children_recursive(n, tags) == find_all(n, tags)

\* Tag.find_all(tags, recursive=False): the children of n whose tag is in tags
find_children(n, tags) == SelectSeq(n.kids, LAMBDA k : k.tag \in tags)

\* Tag.descendants restricted to NavigableString: the text nodes under n
RECURSIVE strings(_)
RECURSIVE KidsStrings(_, _)
KidsStrings(ks, i) == IF i > Len(ks) THEN <<>>
                      ELSE strings(ks[i]) \o KidsStrings(ks, i + 1)
strings(n) == IF IsText(n) THEN <<n.text>> ELSE KidsStrings(n.kids, 1)

\* the text nodes of a paragraph, each stripped, the empty ones dropped
\* (content_parts of _process_paragraphs_final)
content_parts(p) ==
    Only({SelectSeq([i \in 1..Len(ss) |-> strip(ss[i])], LAMBDA t : t # <<>>) :
          ss \in {strings(p)}})

\* whether a pass replaces a matching element x at all: a paragraph with no
\* content_parts is left alone, and so is a link when link_style is not inline
Applies(pass, cfg, x) ==
    CASE pass = "p" -> content_parts(x) # <<>>
      [] pass = "link" -> cfg.link_style = "inline"
      [] OTHER -> TRUE

\* what a pass puts in the place of a matching element x; defined with the passes
RECURSIVE Render(_, _, _)

\* for x in soup.find_all(tags): x.replace_with(Render(pass, cfg, x)).
\* find_all lists the matches before the loop starts, outermost first; a match
\* inside an already replaced match is replaced in a subtree that has left the
\* tree, so the tree ends with every outermost match replaced by a text node.
RECURSIVE ReplaceAll(_, _, _, _)
RECURSIVE ReplaceInKids(_, _, _, _, _)
ReplaceInKids(ks, i, tags, pass, cfg) ==
    IF i > Len(ks) THEN <<>>
    ELSE <<IF ks[i].tag \in tags /\ Applies(pass, cfg, ks[i])
           THEN Text(Render(pass, cfg, ks[i]))
           ELSE ReplaceAll(ks[i], tags, pass, cfg)>>
         \o ReplaceInKids(ks, i + 1, tags, pass, cfg)
ReplaceAll(n, tags, pass, cfg) ==
    Only({IF IsText(m) THEN m
          ELSE [m EXCEPT !.kids = ReplaceInKids(m.kids, 1, tags, pass, cfg)] :
          m \in {n}})

---------------------------------------------------------------------------
(* ConversionConfig                                                        *)

DefaultConfig ==
    [preserve_structure |-> TRUE, preserve_tables |-> TRUE,
     preserve_links |-> TRUE, heading_style |-> "atx", link_style |-> "inline",
     bullet_marker |-> "-", code_block_style |-> "fenced", fence_char |-> BackTick,
     emphasis_marker |-> "*"]

\* ConversionConfig(preserve_structure=s, preserve_tables=t)
SwitchConfig(s, t) ==
    [DefaultConfig EXCEPT !.preserve_structure = s, !.preserve_tables = t]

---------------------------------------------------------------------------
(* int(th.get("colspan", 1))                                               *)

\* the body of an int literal: digits, single underscores between digits
IsIntBody(b) ==
    /\ b # <<>>
    /\ \A i \in 1..Len(b) : IsDigit(b[i]) \/ b[i] = "_"
    /\ IsDigit(b[1]) /\ IsDigit(b[Len(b)])
    /\ \A i \in 1..(Len(b) - 1) : ~(b[i] = "_" /\ b[i + 1] = "_")

RECURSIVE DigitsValue(_)
DigitsValue(b) ==
    IF b = <<>> THEN 0
    ELSE IF b[Len(b)] = "_" THEN DigitsValue(SubSeq(b, 1, Len(b) - 1))
    ELSE 10 * DigitsValue(SubSeq(b, 1, Len(b) - 1)) + DigitVal(b[Len(b)])

\* int(s) for a str s: surrounding whitespace and a sign are accepted;
\* ok = FALSE stands for ValueError
PyInt(s) ==
    LET t == strip(s)
        signed == t # <<>> /\ t[1] \in {"+", "-"}
        body == IF signed THEN Tail(t) ELSE t
    IN IF IsIntBody(body)
       THEN [ok |-> TRUE,
             v |-> IF signed /\ t[1] = "-" THEN 0 - DigitsValue(body)
                   ELSE DigitsValue(body)]
       ELSE [ok |-> FALSE, v |-> 0]

\* int(cell.get("colspan", 1)): the default 1 when the attribute is absent
colspan_of(cell) ==
    IF cell.colspan = Absent THEN [ok |-> TRUE, v |-> 1] ELSE PyInt(cell.colspan)

---------------------------------------------------------------------------
(* The passes                                                              *)

HeadingTags == <<"h1", "h2", "h3", "h4", "h5", "h6">>

HeadingLevel(t) == CHOOSE i \in 1..6 : HeadingTags[i] = t

\* a cell's text alone, whatever its colspan
expand_cell_no_span(cell) == <<strip(get_text(cell))>>

\* a cell's text followed by one empty cell per further column it spans
\* (the colspan > 1 test: a span of 0 or less yields the text alone)
expand_cell(cell) ==
    <<strip(get_text(cell))>> \o [i \in 1..(colspan_of(cell).v - 1) |-> <<>>]

expand_cells(cells) == Concat([i \in 1..Len(cells) |-> expand_cell(cells[i])])

\* some int(...) over these cells raises ValueError
bad_span(cells) == \E i \in 1..Len(cells) : ~colspan_of(cells[i]).ok

RECURSIVE SumSpans(_)
SumSpans(cells) ==
    IF cells = <<>> THEN 0 ELSE colspan_of(Head(cells)).v + SumSpans(Tail(cells))

\* "| " + " | ".join(cells) + " |"
table_line(cells) == <<"|", SP>> \o join(<<SP, "|", SP>>, cells) \o <<SP, "|">>

\* step 1 finding no header, whatever the rows hold
th_header_index_none(all_rows) == 0

\* step 1 of _process_tables: the index of the first row holding a th, 0 if none
th_header_index(all_rows) ==
    IF \E i \in 1..Len(all_rows) : find_all(all_rows[i], {"th"}) # <<>>
    THEN CHOOSE i \in 1..Len(all_rows) :
             /\ find_all(all_rows[i], {"th"}) # <<>>
             /\ \A j \in 1..(i - 1) : find_all(all_rows[j], {"th"}) = <<>>
    ELSE 0

\* step 2 of _process_tables, from row idx on: the first row with more than one
\* td either raises in its sum of spans or, when the sum equals the number of
\* cells, is the header; [raised, index], index 0 when no row qualifies
RECURSIVE td_header_scan(_, _)
td_header_scan(all_rows, idx) ==
    IF idx > Len(all_rows) THEN [raised |-> FALSE, index |-> 0]
    ELSE LET td_cells == find_all(all_rows[idx], {"td"})
         IN IF Len(td_cells) > 1
            THEN IF bad_span(td_cells) THEN [raised |-> TRUE, index |-> 0]
                 ELSE IF SumSpans(td_cells) = Len(td_cells)
                 THEN [raised |-> FALSE, index |-> idx]
                 ELSE td_header_scan(all_rows, idx + 1)
            ELSE td_header_scan(all_rows, idx + 1)

\* step 4 of _process_tables: whether row idx is emitted as a data row
is_data_row(all_rows, header_row_index, idx) ==
    /\ idx # header_row_index
    /\ find_all(all_rows[idx], {"th"}) = <<>>
    /\ find_all(all_rows[idx], {"td"}) # <<>>

\* one table of _process_tables, given all_rows = table.find_all("tr") of the
\* table after its inline formatting:
\*   raised            some int(...) the code evaluates raises ValueError
\*   header_row_index  0 for None
\*   headers           the header cells
\*   data              the cells of each data row, in document order
rows_out(all_rows) ==
    LET th_idx == th_header_index(all_rows)
        th_cells == IF th_idx = 0 THEN <<>> ELSE find_all(all_rows[th_idx], {"th"})
        scan == IF th_idx = 0 THEN td_header_scan(all_rows, 1)
                ELSE [raised |-> FALSE, index |-> 0]
        header_row_index == IF th_idx # 0 THEN th_idx ELSE scan.index
        header_cells == IF th_idx # 0 THEN th_cells
                        ELSE IF scan.index # 0
                        THEN find_all(all_rows[scan.index], {"td"})
                        ELSE <<>>
        data_idx == SelectSeq([i \in 1..Len(all_rows) |-> i],
                              LAMBDA i : is_data_row(all_rows, header_row_index, i))
        data_cells == [k \in 1..Len(data_idx) |->
                          find_all(all_rows[data_idx[k]], {"td"})]
        raised == \/ bad_span(th_cells)
                  \/ scan.raised
                  \/ \E k \in 1..Len(data_cells) : bad_span(data_cells[k])
    IN [raised |-> raised,
        header_row_index |-> header_row_index,
        headers |-> IF raised THEN <<>> ELSE expand_cells(header_cells),
        data |-> IF raised THEN <<>>
                 ELSE [k \in 1..Len(data_cells) |-> expand_cells(data_cells[k])]]

table_out(table) == Only({rows_out(all_rows) : all_rows \in {find_all(table, {"tr"})}})

\* the lines of a table without the separator line
table_rows_no_separator(out) ==
    Only({(IF o.headers # <<>> THEN <<table_line(o.headers)>> ELSE <<>>)
          \o [k \in 1..Len(o.data) |-> table_line(o.data[k])] : o \in {out}})

\* the lines _process_tables assembles in rows
table_rows(out) ==
    Only({(IF o.headers # <<>>
           THEN <<table_line(o.headers),
                  table_line([i \in 1..Len(o.headers) |-> <<"-", "-", "-">>])>>
           ELSE <<>>)
          \o [k \in 1..Len(o.data) |-> table_line(o.data[k])] : o \in {out}})

\* _process_table_inline_formatting and _process_basic_formatting: bold, italic,
\* strikethrough, inline code, then links
inline_formatting(cfg, n) ==
    Only({IF cfg.preserve_links THEN ReplaceAll(d, {"a"}, "link", cfg) ELSE d :
          d \in {ReplaceAll(
                    ReplaceAll(
                        ReplaceAll(
                            ReplaceAll(n, {"strong", "b"}, "bold", cfg),
                            {"em", "i"}, "italic", cfg),
                        {"s", "del"}, "strike", cfg),
                    {"code"}, "code", cfg)}})

\* the cells' text taken without the inline pass of the table
process_table_inline_formatting_skipped(cfg, table) == table

process_table_inline_formatting(cfg, table) == inline_formatting(cfg, table)

process_basic_formatting(cfg, n) == inline_formatting(cfg, n)

\* lines of text, each with a prefix
prefixed(prefix, lines) ==
    Only({join(<<NL>>, [i \in 1..Len(ls) |-> prefix \o ls[i]]) : ls \in {lines}})

Render(pass, cfg, x) ==
    CASE pass = "heading" ->
            Only({IF cfg.heading_style = "atx"
                  THEN <<NL>> \o Repeat(<<"#">>, i) \o <<SP>> \o text \o <<NL>>
                  ELSE <<NL>> \o text \o <<NL>>
                       \o Repeat(<<IF i = 1 THEN "=" ELSE "-">>, Len(text))
                       \o <<NL>> :
                  i \in {HeadingLevel(x.tag)}, text \in {strip(get_text(x))}})
      [] pass = "ol" ->
            Only({<<NL>>
                  \o join(<<NL>>, [i \in 1..Len(lis) |->
                         IntToStr(i) \o <<".", SP>> \o strip(get_text(lis[i]))])
                  \o <<NL, NL>> : lis \in {find_children(x, {"li"})}})
      [] pass = "ul" ->
            Only({<<NL>>
                  \o join(<<NL>>, [i \in 1..Len(lis) |->
                         <<cfg.bullet_marker, SP>> \o strip(get_text(lis[i]))])
                  \o <<NL, NL>> : lis \in {find_children(x, {"li"})}})
      [] pass = "table" ->
            <<NL>>
            \o join(<<NL>>,
                    table_rows(table_out(process_table_inline_formatting(cfg, x))))
            \o <<NL>>
      [] pass = "pre" ->
            Only({IF cfg.code_block_style = "fenced"
                  THEN <<NL>> \o fence \o <<NL>> \o code \o <<NL>> \o fence
                       \o <<NL>>
                  ELSE <<NL>> \o prefixed(<<SP, SP, SP, SP>>, split(code, NL))
                       \o <<NL>> :
                  code \in {strip(get_text(x))},
                  fence \in {Repeat(<<cfg.fence_char>>, 3)}})
      [] pass = "blockquote" ->
            <<NL>> \o prefixed(<<">", SP>>, split(strip(get_text(x)), NL)) \o <<NL>>
      [] pass = "hr" -> <<NL, "-", "-", "-", NL>>
      [] pass = "bold" ->
            Repeat(<<cfg.emphasis_marker>>, 2) \o strip(get_text(x))
            \o Repeat(<<cfg.emphasis_marker>>, 2)
      [] pass = "italic" ->
            <<cfg.emphasis_marker>> \o strip(get_text(x)) \o <<cfg.emphasis_marker>>
      [] pass = "strike" -> <<"~", "~">> \o strip(get_text(x)) \o <<"~", "~">>
      [] pass = "code" -> <<BackTick>> \o strip(get_text(x)) \o <<BackTick>>
      [] pass = "link" ->
            <<"[">> \o strip(get_text(x)) \o <<"]", "(">>
            \o (IF x.href = Absent THEN <<>> ELSE x.href) \o <<")">>
      [] pass = "p" -> <<NL>> \o join(<<SP>>, content_parts(x)) \o <<NL, NL>>

RECURSIVE HeadingsFrom(_, _, _)
HeadingsFrom(cfg, n, i) ==
    IF i = 0 THEN n
    ELSE HeadingsFrom(cfg, ReplaceAll(n, {HeadingTags[i]}, "heading", cfg), i - 1)

process_headings(cfg, n) == HeadingsFrom(cfg, n, 6)

process_lists(cfg, n) ==
    ReplaceAll(ReplaceAll(n, {"ol"}, "ol", cfg), {"ul"}, "ul", cfg)

\* a ValueError leaves _process_tables: some table of find_all("table"), nested
\* ones included, holds a span the code evaluates and int() rejects
tables_raise(cfg, n) ==
    \E t \in {find_all(n, {"table"})} : \E i \in 1..Len(t) :
        table_out(process_table_inline_formatting(cfg, t[i])).raised

process_tables(cfg, n) == ReplaceAll(n, {"table"}, "table", cfg)

process_code_blocks(cfg, n) == ReplaceAll(n, {"pre"}, "pre", cfg)

process_blockquotes(cfg, n) == ReplaceAll(n, {"blockquote"}, "blockquote", cfg)

process_horizontal_rules(cfg, n) == ReplaceAll(n, {"hr"}, "hr", cfg)

process_paragraphs_final(cfg, n) == ReplaceAll(n, {"p"}, "p", cfg)

---------------------------------------------------------------------------
(* convert_html                                                            *)

\* a value that is neither a str nor a BeautifulSoup/Tag
OtherContent == [kind |-> "other", markup |-> Elem(RootTag, <<>>)]

StrContent(markup) == [kind |-> "str", markup |-> markup]

SoupContent(tree) == [kind |-> "soup", markup |-> tree]

Document(ks) == Elem(RootTag, ks)

NoResult == <<"#noresult">>

\* container_selector = None
NoSelector == "#None"

\* BeautifulSoup(html_str, "html.parser") on markup given by its structure:
\* the parser decodes the character references of every text
RECURSIVE Parse(_)
Parse(n) ==
    IF IsText(n) THEN [n EXCEPT !.text = unescape(n.text)]
    ELSE [n EXCEPT !.kids = [i \in 1..Len(n.kids) |-> Parse(n.kids[i])]]

\* soup.select_one(sel) for a type selector: the first descendant with that
\* tag, in document order; <<>> stands for None
select_one(n, sel) ==
    Only({IF found = <<>> THEN <<>> ELSE <<found[1]>> : found \in {find_all(n, {sel})}})

\* the selector ignored
container_of_whole(n, sel) == n

\* lines 69-72: the node the passes run on
container_of(n, sel) ==
    IF sel # NoSelector /\ sel # "" /\ select_one(n, sel) # <<>>
    THEN select_one(n, sel)[1]
    ELSE n

\* the first converter instance, before any call has finished
NoCalls == [converter |-> 1, calls |-> <<>>]

ErrorRecord(msg) == [level |-> "error", msg |-> msg]

\* convert_html, lines 47-53: dispatch on the type of content
ConvertHtml ==
    /\ pc = "convert_html"
    /\ IF content.kind = "str"
       THEN /\ pc' = "convert_html_str"
            /\ UNCHANGED <<soup, exc>>
       ELSE IF content.kind = "soup"
       THEN /\ pc' = "convert_html_soup"
            /\ soup' = content.markup
            /\ exc' = exc
       ELSE /\ pc' = "convert_html_except"
            /\ exc' = "ValueError"
            /\ soup' = soup
    /\ UNCHANGED <<content, selector, config, log, result, value, fn, ret, rich_table, session>>

\* a converter that parses once and keeps the tree for its later calls
html_str_soup_kept(html_str, tree) ==
    IF tree = Elem(RootTag, <<>>) THEN Parse(html_str) ELSE tree

\* line 61: the tree of a call is parsed from its own markup, whatever tree
\* an earlier call left behind
html_str_soup(html_str, tree) == Parse(html_str)

\* convert_html_str, lines 61-62
ConvertHtmlStr ==
    /\ pc = "convert_html_str"
    /\ soup' = html_str_soup(content.markup, soup)
    /\ pc' = "convert_html_soup"
    /\ UNCHANGED <<content, selector, config, exc, log, result, value, fn, ret, rich_table, session>>

\* the container, then the structural passes whatever preserve_structure is
SelectContainer_always_structure ==
    /\ pc = "convert_html_soup"
    /\ soup' = container_of(soup, selector)
    /\ pc' = "process_headings"
    /\ UNCHANGED <<content, selector, config, exc, log, result, value, fn, ret, rich_table, session>>

\* convert_html_soup, lines 69-74: the container, then the structure switch
SelectContainer ==
    /\ pc = "convert_html_soup"
    /\ soup' = container_of(soup, selector)
    /\ pc' = IF config.preserve_structure THEN "process_headings"
             ELSE "process_basic_formatting"
    /\ UNCHANGED <<content, selector, config, exc, log, result, value, fn, ret, rich_table, session>>

ProcessHeadings ==
    /\ pc = "process_headings"
    /\ soup' = process_headings(config, soup)
    /\ pc' = "process_lists"
    /\ UNCHANGED <<content, selector, config, exc, log, result, value, fn, ret, rich_table, session>>

\* _process_lists, then the preserve_tables switch of _process_structure
ProcessLists ==
    /\ pc = "process_lists"
    /\ soup' = process_lists(config, soup)
    /\ pc' = IF config.preserve_tables THEN "process_tables"
             ELSE "process_code_blocks"
    /\ UNCHANGED <<content, selector, config, exc, log, result, value, fn, ret, rich_table, session>>

\* _process_tables: a ValueError of int() leaves the pass and is caught at line 84
ProcessTables ==
    /\ pc = "process_tables"
    /\ IF tables_raise(config, soup)
       THEN /\ exc' = "ValueError"
            /\ pc' = "convert_html_soup_except"
            /\ soup' = soup
       ELSE /\ soup' = process_tables(config, soup)
            /\ pc' = "process_code_blocks"
            /\ exc' = exc
    /\ UNCHANGED <<content, selector, config, log, result, value, fn, ret, rich_table, session>>

ProcessCodeBlocks ==
    /\ pc = "process_code_blocks"
    /\ soup' = process_code_blocks(config, soup)
    /\ pc' = "process_blockquotes"
    /\ UNCHANGED <<content, selector, config, exc, log, result, value, fn, ret, rich_table, session>>

ProcessBlockquotes ==
    /\ pc = "process_blockquotes"
    /\ soup' = process_blockquotes(config, soup)
    /\ pc' = "process_horizontal_rules"
    /\ UNCHANGED <<content, selector, config, exc, log, result, value, fn, ret, rich_table, session>>

ProcessHorizontalRules ==
    /\ pc = "process_horizontal_rules"
    /\ soup' = process_horizontal_rules(config, soup)
    /\ pc' = "process_basic_formatting"
    /\ UNCHANGED <<content, selector, config, exc, log, result, value, fn, ret, rich_table, session>>

ProcessBasicFormatting ==
    /\ pc = "process_basic_formatting"
    /\ soup' = process_basic_formatting(config, soup)
    /\ pc' = "process_paragraphs_final"
    /\ UNCHANGED <<content, selector, config, exc, log, result, value, fn, ret, rich_table, session>>

ProcessParagraphsFinal ==
    /\ pc = "process_paragraphs_final"
    /\ soup' = process_paragraphs_final(config, soup)
    /\ pc' = "clean_and_format"
    /\ UNCHANGED <<content, selector, config, exc, log, result, value, fn, ret, rich_table, session>>

\* line 82: return self._clean_and_format(soup.get_text())
CleanAndFormat ==
    /\ pc = "clean_and_format"
    /\ result' = clean_and_format(get_text(soup))
    /\ pc' = "returned"
    /\ UNCHANGED <<content, selector, config, soup, exc, log, value, fn, ret, rich_table, session>>

\* convert_html_soup, lines 84-86: log at error level, re-raise
ConvertHtmlSoupExcept ==
    /\ pc = "convert_html_soup_except"
    /\ log' = Append(log, ErrorRecord("Error converting HTML soup"))
    /\ pc' = "convert_html_except"
    /\ UNCHANGED <<content, selector, config, soup, exc, result, value, fn, ret, rich_table, session>>

\* an except block that logs and returns instead of raising again
ConvertHtmlExcept_swallow ==
    /\ pc = "convert_html_except"
    /\ log' = Append(log, ErrorRecord("Error converting HTML"))
    /\ pc' = "returned"
    /\ exc' = "none"
    /\ result' = <<NL>>
    /\ UNCHANGED <<content, selector, config, soup, value, fn, ret, rich_table, session>>

\* convert_html, lines 55-57: log at error level, re-raise to the caller
ConvertHtmlExcept ==
    /\ pc = "convert_html_except"
    /\ log' = Append(log, ErrorRecord("Error converting HTML"))
    /\ pc' = "raised"
    /\ UNCHANGED <<content, selector, config, soup, exc, result, value, fn, ret, rich_table, session>>

(* Documents *)

\* the texts of cells and blocks
Letters == <<"A", "B", "C", "D", "E", "F", "G", "H", "I", "J">>

\* the block at position p of a document; its texts are the letters a and b,
\* which no other position uses
Block(kind, a, b) ==
    CASE kind = "text" -> Text(<<a>>)
      [] kind = "p" -> Elem("p", <<Text(<<a>>)>>)
      [] kind = "p_b" -> Elem("p", <<Text(<<a>>), Elem("b", <<Text(<<b>>)>>)>>)
      [] kind = "h1" -> Elem("h1", <<Text(<<a>>)>>)
      [] kind = "ul" ->
            Elem("ul", <<Elem("li", <<Text(<<a>>)>>), Elem("li", <<Text(<<b>>)>>)>>)
      [] kind = "ol" ->
            Elem("ol", <<Elem("li", <<Text(<<a>>)>>), Elem("li", <<Text(<<b>>)>>)>>)
      [] kind = "ul_text" ->
            Elem("ul", <<Text(<<a>>), Elem("li", <<Text(<<b>>)>>)>>)
      [] kind = "table" ->
            Elem("table",
                 <<Elem("tr", <<Elem("th", <<Text(<<a>>)>>)>>),
                   Elem("tr", <<Elem("td", <<Text(<<b>>)>>)>>)>>)
      [] kind = "table_th_th" ->
            Elem("table",
                 <<Elem("tr", <<Elem("th", <<Text(<<a>>)>>)>>),
                   Elem("tr", <<Elem("th", <<Text(<<b>>)>>)>>)>>)
      [] kind = "table_th_td" ->
            Elem("table",
                 <<Elem("tr", <<Elem("th", <<Text(<<a>>)>>),
                                Elem("td", <<Text(<<b>>)>>)>>)>>)
      [] kind = "div" -> Elem("div", <<Elem("p", <<Text(<<a>>)>>), Text(<<b>>)>>)
      [] kind = "pre" -> Elem("pre", <<Text(<<a>>)>>)
      [] kind = "blockquote" -> Elem("blockquote", <<Text(<<a>>)>>)
      [] kind = "hr" -> Elem("hr", <<>>)

BlockKinds ==
    {"text", "p", "p_b", "h1", "ul", "ol", "ul_text", "table", "table_th_th",
     "table_th_td", "div"}

BlockDocument(kinds) ==
    Document([p \in 1..Len(kinds) |->
                 Block(kinds[p], Letters[2 * p - 1], Letters[2 * p])])

\* documents whose elements are nested, and the styles they are converted under

\* ConversionConfig with other markers and styles than the defaults
StyleConfigs ==
    {DefaultConfig,
     [DefaultConfig EXCEPT !.bullet_marker = "*", !.code_block_style = "indented",
                           !.emphasis_marker = "_"],
     [DefaultConfig EXCEPT !.bullet_marker = "+", !.fence_char = "~",
                           !.link_style = "reference"],
     [DefaultConfig EXCEPT !.preserve_links = FALSE, !.heading_style = "setext"],
     SwitchConfig(FALSE, TRUE),
     SwitchConfig(TRUE, FALSE)}

ListTags == {"ol", "ul"}

\* <outer><li>A<inner><li>B</li><li>C</li></inner></li><li>D</li></outer>
NestedList(outer, inner) ==
    Elem(outer,
         <<Elem("li", <<Text(<<"A">>),
                        Elem(inner, <<Elem("li", <<Text(<<"B">>)>>),
                                      Elem("li", <<Text(<<"C">>)>>)>>)>>),
           Elem("li", <<Text(<<"D">>)>>)>>)

NestedLists == {NestedList(outer, inner) : outer \in ListTags, inner \in ListTags}

\* an ordered list long enough for numbers of two digits
LongListLen == 11

LongList ==
    Elem("ol", [i \in 1..LongListLen |->
                   Elem("li", <<Text(<<Letters[((i - 1) % Len(Letters)) + 1]>>)>>)])

\* texts of pre blocks: a run of spaces, blank lines, two lines, one word
PreTexts ==
    {<<"a", SP, SP, "b">>, <<"a", NL, NL, NL, "b">>, <<"a", NL, "b">>, <<"a">>}

PreBlocks == {Elem("pre", <<Text(t)>>) : t \in PreTexts}

InlineTags == {"strong", "b", "em", "i", "s", "del", "code", "a"}

\* <tag>X</tag>, a link with href="u"
Inline(tag) ==
    [Elem(tag, <<Text(<<"X">>)>>) EXCEPT !.href = IF tag = "a" THEN <<"u">> ELSE Absent]

\* where inline markup stands: in a paragraph, a table cell (th_td: the td of a
\* row that also holds a th), a heading, a list item, a pre block, a blockquote,
\* or a paragraph inside a list item or a blockquote
Hosts ==
    {"p", "td", "th", "th_td", "h1", "li", "pre", "blockquote", "li_p",
     "blockquote_p"}

Hosted(host, e) ==
    CASE host = "p" -> Elem("p", <<Text(<<"A", SP>>), e>>)
      [] host = "td" ->
            Elem("div",
                 <<Elem("table", <<Elem("tr", <<Elem("th", <<Text(<<"A">>)>>)>>),
                                   Elem("tr", <<Elem("td", <<e>>)>>)>>)>>)
      [] host = "th" ->
            Elem("div",
                 <<Elem("table", <<Elem("tr", <<Elem("th", <<e>>)>>),
                                   Elem("tr", <<Elem("td", <<Text(<<"A">>)>>)>>)>>)>>)
      [] host = "th_td" ->
            Elem("div",
                 <<Elem("table",
                        <<Elem("tr", <<Elem("th", <<Text(<<"A">>)>>)>>),
                          Elem("tr", <<Elem("th", <<Text(<<"B">>)>>),
                                       Elem("td", <<e>>)>>)>>)>>)
      [] host = "h1" -> Elem("h1", <<Text(<<"A", SP>>), e>>)
      [] host = "li" -> Elem("ul", <<Elem("li", <<Text(<<"A", SP>>), e>>)>>)
      [] host = "pre" -> Elem("pre", <<Text(<<"A", SP>>), e>>)
      [] host = "blockquote" -> Elem("blockquote", <<Text(<<"A", SP>>), e>>)
      [] host = "li_p" -> Elem("ul", <<Elem("li", <<Elem("p", <<e>>)>>)>>)
      [] host = "blockquote_p" -> Elem("blockquote", <<Elem("p", <<e>>)>>)

HostedInlines == {Hosted(host, Inline(tag)) : host \in Hosts, tag \in InlineTags}

\* a table inside a cell of another table, the outer one without and with a
\* header row, inside a div
NestedTables ==
    {Elem("div",
          <<Elem("table",
                 <<Elem("tr",
                        <<Elem("td",
                               <<Text(<<"A">>),
                                 Elem("table",
                                      <<Elem("tr", <<Elem("td", <<Text(<<"B">>)>>)>>)>>)
                               >>)>>)>>)>>),
     Elem("div",
          <<Elem("table",
                 <<Elem("tr", <<Elem("th", <<Text(<<"A">>)>>)>>),
                   Elem("tr",
                        <<Elem("td",
                               <<Text(<<"B">>),
                                 Elem("table",
                                      <<Elem("tr", <<Elem("td", <<Text(<<"C">>)>>)>>),
                                        Elem("tr", <<Elem("td", <<Text(<<"D">>)>>)>>)>>)
                               >>)>>)>>)>>)}

StyledDocuments ==
    {Document(<<n>>) :
        n \in NestedLists \cup PreBlocks \cup HostedInlines \cup NestedTables}
    \cup {Document(<<LongList, Block("ul", "A", "B")>>)}

\* the trees a caller converts a second time: the documents of one or two
\* blocks and the documents of nested elements
TreeDocuments ==
    {BlockDocument(<<a>>) : a \in BlockKinds}
    \cup {BlockDocument(<<a, b>>) : a \in BlockKinds, b \in BlockKinds}
    \cup StyledDocuments

\* the calls a converter goes on with: markup of a paragraph and a table, and
\* the same with a colspan that is no number
RepeatContents ==
    {StrContent(Document(
         <<Elem("p", <<Text(<<"a", "&amp;">>)>>),
           Elem("table", <<Elem("tr", <<Elem("th", <<Text(<<"b">>)>>)>>),
                           Elem("tr", <<Elem("td", <<Text(<<"c">>)>>)>>)>>)>>)),
     StrContent(Document(
         <<Elem("p", <<Text(<<"a">>)>>),
           Elem("table",
                <<Elem("tr", <<[Elem("td", <<Text(<<"b">>)>>)
                                   EXCEPT !.colspan = <<"x">>]>>)>>)>>))}

RepeatSelectors == {NoSelector, "p"}

RepeatConfigs == {DefaultConfig, SwitchConfig(FALSE, TRUE)}

\* what a finished call was given and what it did
CallRecord ==
    [converter |-> session.converter, content |-> content, selector |-> selector,
     config |-> config, result |-> result, exc |-> exc]

\* __init__, line 31: config or ConversionConfig(); <<>> stands for None
config_or_default(cfg) == IF cfg = <<>> THEN DefaultConfig ELSE cfg

\* the next call of convert_html, once a call has returned or raised: on the
\* same converter (method call, lines 34-57), or on a converter built for it
\* (convert_html_to_markdown, lines 341-342)
ConvertHtmlAgain ==
    /\ pc \in {"returned", "raised"}
    /\ Len(session.calls) < MaxCalls
    /\ content \in RepeatContents
    /\ \E c \in RepeatContents, sel \in RepeatSelectors,
          cfg \in RepeatConfigs \cup {<<>>}, same \in BOOLEAN :
          /\ content' = c
          /\ selector' = sel
          /\ config' = IF same THEN config ELSE config_or_default(cfg)
          /\ session' = [converter |-> IF same THEN session.converter
                                       ELSE session.converter + 1,
                         calls |-> Append(session.calls, CallRecord)]
    /\ pc' = "convert_html"
    /\ exc' = "none"
    /\ log' = <<>>
    /\ result' = NoResult
    /\ UNCHANGED <<soup, value, fn, ret, rich_table>>

\* the tree with its first element of tag sel, in document order, replaced
RECURSIVE replace_first(_, _, _)
replace_first(n, sel, repl) ==
    LET hit(j) == n.kids[j].tag = sel \/ find_all(n.kids[j], {sel}) # <<>>
    IN  IF \E j \in 1..Len(n.kids) : hit(j)
        THEN LET j == CHOOSE j \in 1..Len(n.kids) :
                          hit(j) /\ \A k \in 1..(j - 1) : ~hit(k)
             IN  [n EXCEPT !.kids[j] = IF n.kids[j].tag = sel THEN repl
                                       ELSE replace_first(n.kids[j], sel, repl)]
        ELSE n

\* a conversion that works on a copy and leaves the caller's tree as it was
tree_after_copy(tree, sel, container) == tree

\* the caller's tree once convert_html_soup has returned: replace_with rewrote
\* the container where it stands (lines 107, 116, 123, 202, 245, 252, 257, 280,
\* 288-311); the tree around it is the one handed in
tree_after(tree, sel, container) ==
    IF sel # NoSelector /\ sel # "" /\ select_one(tree, sel) # <<>>
    THEN replace_first(tree, sel, container)
    ELSE container

\* the same tree object converted a second time, with the same selector, on
\* the same converter
ConvertTreeAgain ==
    /\ pc = "returned"
    /\ fn = "convert_html"
    /\ content.kind = "soup"
    /\ content.markup \in TreeDocuments
    /\ session.calls = <<>>
    /\ content' = SoupContent(tree_after(content.markup, selector, soup))
    /\ session' = [session EXCEPT !.calls = Append(session.calls, CallRecord)]
    /\ pc' = "convert_html"
    /\ result' = NoResult
    /\ UNCHANGED <<selector, config, soup, exc, log, value, fn, ret, rich_table>>

---------------------------------------------------------------------------
(* Numbers: decimal.Decimal (default context) and float                    *)

\* the precision and the largest exponent of decimal's default context
Prec == 28
Emax == 999999

\* float's largest decimal exponent: sys.float_info.max is 1.797...e308
FloatMaxExp == 308

\* the leading digits of the least decimal that float() rounds to infinity
FloatOverflowDigits == <<1, 7, 9, 7, 6, 9, 3, 1, 3, 4, 8, 6, 2, 3, 1, 5, 8, 0, 7, 9>>

UpperCase == <<"A", "B", "C", "D", "E", "F", "G", "H", "I", "J", "K", "L", "M",
               "N", "O", "P", "Q", "R", "S", "T", "U", "V", "W", "X", "Y", "Z">>

LowerCase == <<"a", "b", "c", "d", "e", "f", "g", "h", "i", "j", "k", "l", "m",
               "n", "o", "p", "q", "r", "s", "t", "u", "v", "w", "x", "y", "z">>

Lower(c) ==
    IF \E i \in 1..Len(UpperCase) : UpperCase[i] = c
    THEN LowerCase[CHOOSE i \in 1..Len(UpperCase) : UpperCase[i] = c]
    ELSE c

\* str.lower()
lower(s) == [i \in 1..Len(s) |-> Lower(s[i])]

(* Natural numbers of any size: sequences of digits 0..9, most significant
   first *)

Zeros(n) == [i \in 1..n |-> 0]

IsZero(ds) == \A i \in 1..Len(ds) : ds[i] = 0

\* ds without leading zeros; <<0>> for zero
StripZeros(ds) ==
    IF IsZero(ds) THEN <<0>>
    ELSE SubSeq(ds,
                CHOOSE i \in 1..Len(ds) : ds[i] # 0 /\ \A j \in 1..(i - 1) : ds[j] = 0,
                Len(ds))

\* ds left-padded with zeros to n digits
PadTo(ds, n) == Zeros(n - Len(ds)) \o ds

\* ds + 1
Increment(ds) ==
    IF \A i \in 1..Len(ds) : ds[i] = 9 THEN <<1>> \o Zeros(Len(ds))
    ELSE LET j == CHOOSE i \in 1..Len(ds) :
                      ds[i] # 9 /\ \A k \in (i + 1)..Len(ds) : ds[k] = 9
         IN [i \in 1..Len(ds) |->
                IF i < j THEN ds[i] ELSE IF i = j THEN ds[i] + 1 ELSE 0]

\* a < b, for a and b of one length
Less(a, b) ==
    \E k \in 1..Len(a) : a[k] < b[k] /\ \A j \in 1..(k - 1) : a[j] = b[j]

\* a + b, for a and b of one length
AddDigits(a, b) ==
    LET carry(i) ==
            IF \E k \in (i + 1)..Len(a) :
                   /\ a[k] + b[k] >= 10
                   /\ \A j \in (i + 1)..(k - 1) : a[j] + b[j] = 9
            THEN 1 ELSE 0
    IN (IF carry(0) = 1 THEN <<1>> ELSE <<>>)
       \o [i \in 1..Len(a) |-> (a[i] + b[i] + carry(i)) % 10]

\* a - b, for a >= b of one length
SubDigits(a, b) ==
    LET borrow(i) ==
            IF \E k \in (i + 1)..Len(a) :
                   /\ a[k] < b[k]
                   /\ \A j \in (i + 1)..(k - 1) : a[j] = b[j]
            THEN 1 ELSE 0
    IN [i \in 1..Len(a) |-> (a[i] - b[i] - borrow(i) + 10) % 10]

\* the digits of a numeral
DigitsOf(s) == [i \in 1..Len(s) |-> DigitVal(s[i])]

AllDigits(s) == \A i \in 1..Len(s) : IsDigit(s[i])

\* the last index of the run of digits that starts at index i (i - 1 if none)
RECURSIVE DigitRunEnd(_, _)
DigitRunEnd(s, i) ==
    IF i <= Len(s) /\ IsDigit(s[i]) THEN DigitRunEnd(s, i + 1) ELSE i - 1

(* A Decimal: cls is "finite", "inf", "nan" or "snan"; a finite one is
   (-1)^neg * coef * 10^exp *)

Finite(neg, coef, exp) == [cls |-> "finite", neg |-> neg, coef |-> coef, exp |-> exp]

Special(cls, neg) == [cls |-> cls, neg |-> neg, coef |-> <<0>>, exp |-> 0]

\* coefficient digits[.digits][e[sign]digits] read from b, b in lower case and
\* without sign; ok = FALSE when b is no such numeral
ParseNumeral(b, neg) ==
    LET ie == DigitRunEnd(b, 1)
        dot == ie + 1 <= Len(b) /\ b[ie + 1] = "."
        fe == IF dot THEN DigitRunEnd(b, ie + 2) ELSE ie
        int_part == SubSeq(b, 1, ie)
        frac_part == IF dot THEN SubSeq(b, ie + 2, fe) ELSE <<>>
        rest == SubSeq(b, fe + 1, Len(b))
        exp_signed == Len(rest) >= 2 /\ rest[2] \in {"+", "-"}
        exp_digits == SubSeq(rest, IF exp_signed THEN 3 ELSE 2, Len(rest))
        exp_ok == \/ rest = <<>>
                  \/ rest[1] = "e" /\ exp_digits # <<>> /\ AllDigits(exp_digits)
        e == IF rest = <<>> THEN 0
             ELSE IF exp_signed /\ rest[2] = "-" THEN 0 - DigitsValue(exp_digits)
             ELSE DigitsValue(exp_digits)
    IN IF int_part \o frac_part # <<>> /\ exp_ok
       THEN [ok |-> TRUE,
             d |-> Finite(neg, StripZeros(DigitsOf(int_part \o frac_part)),
                          e - Len(frac_part))]
       ELSE [ok |-> FALSE, d |-> Special("nan", FALSE)]

\* a signed numeral or the name of a special value read from t, t in lower
\* case; Decimal reads sNaN and a NaN's payload digits, float does not
ParseSigned(t, with_snan) ==
    LET signed == t # <<>> /\ t[1] \in {"+", "-"}
        neg == signed /\ t[1] = "-"
        b == IF signed THEN Tail(t) ELSE t
    IN IF b \in {<<"i", "n", "f">>, <<"i", "n", "f", "i", "n", "i", "t", "y">>}
       THEN [ok |-> TRUE, d |-> Special("inf", neg)]
       ELSE IF /\ Len(b) >= 3
               /\ SubSeq(b, 1, 3) = <<"n", "a", "n">>
               /\ IF with_snan THEN AllDigits(SubSeq(b, 4, Len(b))) ELSE Len(b) = 3
       THEN [ok |-> TRUE, d |-> Special("nan", neg)]
       ELSE IF /\ with_snan
               /\ Len(b) >= 4
               /\ SubSeq(b, 1, 4) = <<"s", "n", "a", "n">>
               /\ AllDigits(SubSeq(b, 5, Len(b)))
       THEN [ok |-> TRUE, d |-> Special("snan", neg)]
       ELSE ParseNumeral(b, neg)

\* decimal.Decimal(s) for a str s: whitespace is stripped, underscores are
\* removed, case is ignored; ok = FALSE stands for InvalidOperation
ParseDecimal(s) ==
    Only({ParseSigned(t, TRUE) :
          t \in {lower(SelectSeq(strip(s), LAMBDA c : c # "_"))}})

\* the digits of ds up to keep, the digits that follow dropped
RoundDigits_truncate(ds, keep, half_even) ==
    StripZeros(IF keep = 0 THEN <<0>> ELSE SubSeq(ds, 1, keep))

\* the digits of ds up to keep, rounded by the digits that follow:
\* ROUND_HALF_UP, or ROUND_HALF_EVEN when half_even
RoundDigits(ds, keep, half_even) ==
    LET kept == IF keep = 0 THEN <<0>> ELSE SubSeq(ds, 1, keep)
        exact_half == ds[keep + 1] = 5 /\ IsZero(SubSeq(ds, keep + 2, Len(ds)))
        up == IF half_even /\ exact_half
              THEN keep > 0 /\ ds[keep] % 2 = 1
              ELSE ds[keep + 1] >= 5
    IN IF up THEN StripZeros(Increment(kept)) ELSE StripZeros(kept)

\* Decimal._fix: the result of an operation rounded to the context's
\* precision; ok = FALSE stands for the Overflow the context traps
Fix(x) ==
    Only({IF IsZero(d.coef) THEN [ok |-> TRUE, d |-> d]
          ELSE IF Len(d.coef) <= Prec
          THEN [ok |-> Len(d.coef) + d.exp - 1 <= Emax, d |-> d]
          ELSE LET r == RoundDigits(d.coef, Prec, TRUE)
                   e == d.exp + Len(d.coef) - Prec
                   fixed == IF Len(r) > Prec
                            THEN Finite(d.neg, SubSeq(r, 1, Prec), e + 1)
                            ELSE Finite(d.neg, r, e)
               IN [ok |-> Len(fixed.coef) + fixed.exp - 1 <= Emax, d |-> fixed] :
          d \in {x}})

\* the two coefficients of _normalize(d, 0.0001, prec): both at one exponent,
\* the operand that cannot change the rounded result replaced by a 1 next to
\* the last digit that counts
Normalize(d) ==
    IF d.exp < 0 - 4
    THEN LET small == Len(d.coef) + d.exp - 1 < 0 - 4 - (Prec + 1)
             e == IF small THEN 0 - 4 - (Prec + 1) ELSE d.exp
         IN [a |-> IF small THEN <<1>> ELSE d.coef,
             b |-> <<1>> \o Zeros(0 - 4 - e),
             exp |-> e]
    ELSE LET bound == d.exp + (IF Len(d.coef) - Prec - 2 < 0 - 1
                               THEN Len(d.coef) - Prec - 2 ELSE 0 - 1)
             e == IF 0 - 4 < bound THEN bound ELSE 0 - 4
         IN [a |-> d.coef \o Zeros(d.exp - e), b |-> <<1>>, exp |-> e]

\* dec - Decimal("0.0001"), line 47; ok = FALSE stands for the exception the
\* subtraction raises: InvalidOperation on a signaling NaN, Overflow
Minus0001(x) ==
    Only({IF d.cls = "snan" THEN [ok |-> FALSE, d |-> d]
          ELSE IF d.cls \in {"inf", "nan"} THEN [ok |-> TRUE, d |-> d]
          ELSE IF IsZero(d.coef)
          THEN LET e0 == IF d.exp < 0 - 4 THEN d.exp ELSE 0 - 4
                   e == IF e0 < 0 - 4 - Prec - 1 THEN 0 - 4 - Prec - 1 ELSE e0
               IN Fix(Finite(TRUE, <<1>> \o Zeros(0 - 4 - e), e))
          ELSE Only({
                 LET n == IF Len(m.a) > Len(m.b) THEN Len(m.a) ELSE Len(m.b)
                     a == PadTo(m.a, n)
                     b == PadTo(m.b, n)
                 IN IF d.neg THEN Fix(Finite(TRUE, StripZeros(AddDigits(a, b)), m.exp))
                    ELSE IF a = b THEN Fix(Finite(FALSE, <<0>>, m.exp))
                    ELSE IF Less(a, b)
                    THEN Fix(Finite(TRUE, StripZeros(SubDigits(b, a)), m.exp))
                    ELSE Fix(Finite(FALSE, StripZeros(SubDigits(a, b)), m.exp)) :
                 m \in {Normalize(d)}}) :
          d \in {x}})

\* Decimal._rescale(exp, ROUND_HALF_UP) of a finite, non-zero d
Rescale(d, exp) ==
    IF d.exp >= exp THEN Finite(d.neg, d.coef \o Zeros(d.exp - exp), exp)
    ELSE LET keep == Len(d.coef) + d.exp - exp
         IN IF keep < 0 THEN Finite(d.neg, <<0>>, exp)
            ELSE Finite(d.neg, RoundDigits(d.coef, keep, FALSE), exp)

FracDigits == 5

\* dec.quantize(Decimal("1.00000"), rounding=ROUND_HALF_UP), line 59;
\* ok = FALSE stands for InvalidOperation.  A quiet NaN is returned as it is.
Quantize(x) ==
    Only({IF d.cls \in {"snan", "inf"} THEN [ok |-> FALSE, d |-> d]
          ELSE IF d.cls = "nan" THEN [ok |-> TRUE, d |-> d]
          ELSE IF IsZero(d.coef)
          THEN [ok |-> TRUE, d |-> Finite(d.neg, <<0>>, 0 - FracDigits)]
          ELSE IF Len(d.coef) + d.exp - 1 + FracDigits + 1 > Prec
          THEN [ok |-> FALSE, d |-> d]
          ELSE Only({[ok |-> Len(r.coef) <= Prec, d |-> r] :
                     r \in {Rescale(d, 0 - FracDigits)}}) :
          d \in {x}})

\* the number of digits before the point of Decimal("10000000000"), less one
MaxIntDigits == 10

\* abs(dec) >= Decimal("10000000000"), line 65, for a finite dec
TooLarge(d) == ~IsZero(d.coef) /\ Len(StripZeros(d.coef)) + d.exp > MaxIntDigits

(* float *)

\* an underscore of a float or int literal sits between two digits
UnderscoresOk(t) ==
    \A i \in 1..Len(t) :
        t[i] = "_" => i > 1 /\ i < Len(t) /\ IsDigit(t[i - 1]) /\ IsDigit(t[i + 1])

\* the finite decimal d is beyond the largest float: float() rounds it to inf
Overflows(d) ==
    /\ ~IsZero(d.coef)
    /\ \/ Len(d.coef) + d.exp - 1 > FloatMaxExp
       \/ /\ Len(d.coef) + d.exp - 1 = FloatMaxExp
          /\ LET n == Len(FloatOverflowDigits)
                 lead == SubSeq(d.coef \o Zeros(n), 1, n)
             IN ~Less(lead, FloatOverflowDigits)

\* float(s) for a str s: ok = FALSE stands for ValueError; the value is given
\* by the decimal it was read from, an overflowing one being inf
ParseFloat(s) ==
    Only({IF ~UnderscoresOk(t) THEN [ok |-> FALSE, d |-> Special("nan", FALSE)]
          ELSE Only({IF p.ok /\ p.d.cls = "finite" /\ Overflows(p.d)
                     THEN [ok |-> TRUE, d |-> Special("inf", p.d.neg)]
                     ELSE p :
                     p \in {ParseSigned(lower(SelectSeq(t, LAMBDA c : c # "_")),
                                        FALSE)}}) :
          t \in {strip(s)}})

\* the digits of an int that float's rounding decides: a float with more than
\* 15 significant digits or beyond 10^22 need not be the decimal it was read from
UnknownDigits == <<"?">>

\* int(f) for a finite float f read from the decimal d: truncation toward zero
Truncate(d) ==
    LET keep == Len(d.coef) + d.exp
        digits == IF d.exp >= 0 THEN StripZeros(d.coef \o Zeros(d.exp))
                  ELSE IF keep <= 0 THEN <<0>>
                  ELSE StripZeros(SubSeq(d.coef, 1, keep))
        exact == IsZero(d.coef) \/ (Len(d.coef) <= 15 /\ keep <= 23)
    IN [kind |-> "int",
        neg |-> d.neg /\ ~IsZero(digits),
        digits |-> IF exact THEN digits ELSE UnknownDigits]

(* Values handed to the type converters: kind is the Python type, text the
   str() of a number or bool, the characters of a str *)

NoneValue == [kind |-> "None", text |-> <<>>]

StrValue(s) == [kind |-> "str", text |-> s]

IntValue(s) == [kind |-> "int", text |-> s]

FloatValue(s) == [kind |-> "float", text |-> s]

BoolValue(s) == [kind |-> "bool", text |-> s]

OtherValue(k) == [kind |-> k, text |-> <<>>]

\* what a call did: the value it returned, or the exception it raised
Returns(r) == [exc |-> "none", ret |-> r]

Raises(e) == [exc |-> e, ret |-> [kind |-> "none"]]

ReturnsNone == Returns([kind |-> "None"])

DecimalValue(d) == [kind |-> "Decimal", neg |-> d.neg, coef |-> d.coef, exp |-> d.exp]

\* safe_decimal, lines 57-69: quantize, then the range test.  abs(dec) >= ...
\* on a NaN raises InvalidOperation, outside every try
safe_decimal_quantized(dec) ==
    Only({IF ~q.ok THEN ReturnsNone
          ELSE IF q.d.cls = "nan" THEN Raises("InvalidOperation")
          ELSE IF TooLarge(q.d) THEN ReturnsNone
          ELSE Returns(DecimalValue(q.d)) :
          q \in {Quantize(dec)}})

\* safe_decimal, lines 37-55, on the str value
safe_decimal_str(s) ==
    Only({IF value_str = <<>> THEN ReturnsNone
          ELSE IF value_str[1] = "<"
          THEN Only({IF ~p.ok THEN ReturnsNone
                     ELSE Only({IF ~m.ok THEN ReturnsNone
                                ELSE safe_decimal_quantized(m.d) :
                                m \in {Minus0001(p.d)}}) :
                     p \in {ParseDecimal(strip(Tail(value_str)))}})
          ELSE Only({IF ~p.ok THEN ReturnsNone ELSE safe_decimal_quantized(p.d) :
                     p \in {ParseDecimal(value_str)}}) :
          value_str \in {strip(s)}})

\* safe_decimal(value), lines 26-35: None and the types that are neither
\* number nor str give None; an int, a float or a bool is replaced by its str()
safe_decimal(v) ==
    IF v.kind = "None" THEN ReturnsNone
    ELSE IF v.kind \in {"int", "float", "bool", "str"} THEN safe_decimal_str(v.text)
    ELSE ReturnsNone

\* float(value), line 94: [exc, d]
float_of(v) ==
    IF v.kind = "str"
    THEN Only({IF p.ok THEN [exc |-> "none", d |-> p.d]
               ELSE [exc |-> "ValueError", d |-> p.d] : p \in {ParseFloat(v.text)}})
    ELSE IF v.kind = "float"
    THEN [exc |-> "none", d |-> ParseFloat(v.text).d]
    ELSE IF v.kind = "int"
    THEN Only({IF p.d.cls = "inf" THEN [exc |-> "OverflowError", d |-> p.d]
               ELSE [exc |-> "none", d |-> p.d] : p \in {ParseFloat(v.text)}})
    ELSE IF v.kind = "bool"
    THEN [exc |-> "none",
          d |-> Finite(FALSE, IF v.text = <<"T", "r", "u", "e">> THEN <<1>> ELSE <<0>>, 0)]
    ELSE [exc |-> "TypeError", d |-> Special("nan", FALSE)]

\* int(f), line 94: ValueError on a NaN, OverflowError on an infinity
int_of(d) ==
    IF d.cls = "nan" THEN Raises("ValueError")
    ELSE IF d.cls = "inf" THEN Raises("OverflowError")
    ELSE Returns(Truncate(d))

\* safe_int(value), lines 90-96: ValueError and TypeError give None, any other
\* exception leaves the function
safe_int(v) ==
    IF v.kind = "None" THEN ReturnsNone
    ELSE Only({IF o.exc \in {"ValueError", "TypeError"} THEN ReturnsNone ELSE o :
               o \in {Only({IF f.exc # "none" THEN Raises(f.exc) ELSE int_of(f.d) :
                            f \in {float_of(v)}})}})

\* a call of safe_decimal(value)
CallSafeDecimal ==
    /\ pc = "safe_decimal"
    /\ \E o \in {safe_decimal(value)} :
          /\ ret' = o.ret
          /\ exc' = o.exc
          /\ pc' = IF o.exc = "none" THEN "safe_decimal_returned"
                   ELSE "safe_decimal_raised"
    /\ UNCHANGED <<content, selector, config, soup, log, result, value, fn, rich_table, session>>

\* a call of safe_int(value)
CallSafeInt ==
    /\ pc = "safe_int"
    /\ \E o \in {safe_int(value)} :
          /\ ret' = o.ret
          /\ exc' = o.exc
          /\ pc' = IF o.exc = "none" THEN "safe_int_returned" ELSE "safe_int_raised"
    /\ UNCHANGED <<content, selector, config, soup, log, result, value, fn, rich_table, session>>

\* the value is returned as it came, not stripped
safe_str_unstripped(v) ==
    IF v.kind = "str"
    THEN (IF strip(v.text) # <<>> THEN Returns(StrValue(v.text)) ELSE ReturnsNone)
    ELSE ReturnsNone

\* safe_str, lines 116-120
safe_str(v) ==
    IF v.kind = "str"
    THEN Only({IF val # <<>> THEN Returns(StrValue(val)) ELSE ReturnsNone :
               val \in {strip(v.text)}})
    ELSE ReturnsNone

\* a call of safe_str(value)
CallSafeStr ==
    /\ pc = "safe_str"
    /\ \E o \in {safe_str(value)} :
          /\ ret' = o.ret
          /\ exc' = o.exc
          /\ pc' = "safe_str_returned"
    /\ UNCHANGED <<content, selector, config, soup, log, result, value, fn, rich_table, session>>

---------------------------------------------------------------------------
(* convert_html_to_table                                                   *)

\* no rich Table is built yet
NoTable == [columns |-> 0, rows |-> <<>>]

\* html_string = None
NoneContent == [kind |-> "none", markup |-> Elem(RootTag, <<>>)]

\* the width convert_html_to_table wraps a cell's text at
WrapWidth == 200

\* the tab stops of str.expandtabs()
TabSize == 8

\* the index of the first tab or newline of s at or after i (Len(s) + 1 if none)
NextBreak(s, i) ==
    CHOOSE j \in i..(Len(s) + 1) :
        /\ j = Len(s) + 1 \/ s[j] \in {TAB, NL}
        /\ \A k \in i..(j - 1) : s[k] \notin {TAB, NL}

\* str.expandtabs(), from index i on, col characters into the present line:
\* a tab becomes the spaces that reach the next tab stop
RECURSIVE ExpandTabsFrom(_, _, _)
ExpandTabsFrom(s, i, col) ==
    IF i > Len(s) THEN <<>>
    ELSE Only({IF j > Len(s) THEN SubSeq(s, i, Len(s))
               ELSE IF s[j] = NL
               THEN SubSeq(s, i, j) \o ExpandTabsFrom(s, j + 1, 0)
               ELSE SubSeq(s, i, j - 1)
                    \o Repeat(<<SP>>, TabSize - ((col + j - i) % TabSize))
                    \o ExpandTabsFrom(s, j + 1, 0) :
               j \in {NextBreak(s, i)}})

\* TextWrapper._munge_whitespace: tabs are expanded, then every whitespace
\* character becomes a space
munge_whitespace(s) ==
    Only({[i \in 1..Len(t) |-> IF IsSpace(t[i]) THEN SP ELSE t[i]] :
          t \in {ExpandTabsFrom(s, 1, 0)}})

\* the last index of the run of characters that starts at index i and is, all
\* of it, whitespace (blank) or, all of it, none
ChunkEnd(s, i, blank) ==
    CHOOSE e \in i..Len(s) :
        /\ \A j \in i..e : IsSpace(s[j]) = blank
        /\ e = Len(s) \/ IsSpace(s[e + 1]) # blank

\* TextWrapper._split: the words of s and the runs of whitespace between
\* them, from index i on (the texts of the model hold no hyphen)
RECURSIVE SplitChunks(_, _)
SplitChunks(s, i) ==
    IF i > Len(s) THEN <<>>
    ELSE Only({<<SubSeq(s, i, e)>> \o SplitChunks(s, e + 1) :
               e \in {ChunkEnd(s, i, IsSpace(s[i]))}})

IsBlank(chunk) == \A i \in 1..Len(chunk) : IsSpace(chunk[i])

\* the index of the first chunk, from i on, that no longer fits a line which
\* already holds cur_len characters
RECURSIVE FitEnd(_, _, _, _)
FitEnd(chunks, i, cur_len, width) ==
    IF i > Len(chunks) \/ cur_len + Len(chunks[i]) > width THEN i
    ELSE FitEnd(chunks, i + 1, cur_len + Len(chunks[i]), width)

\* TextWrapper._wrap_chunks: the lines, greedily filled; whitespace at the
\* start of every line but the first and at the end of every line is dropped,
\* and a chunk longer than a line is broken where the line is full
RECURSIVE wrap_chunks(_, _, _)
wrap_chunks(chunks, lines, width) ==
    IF chunks = <<>> THEN lines
    ELSE LET cs == IF IsBlank(chunks[1]) /\ lines # <<>> THEN Tail(chunks)
                   ELSE chunks
             e == FitEnd(cs, 1, 0, width)
             fitted == SubSeq(cs, 1, e - 1)
             long == e <= Len(cs) /\ Len(cs[e]) > width
             space_left == width - Len(Concat(fitted))
             cur_line == IF long THEN Append(fitted, SubSeq(cs[e], 1, space_left))
                         ELSE fitted
             rest == IF long
                     THEN <<SubSeq(cs[e], space_left + 1, Len(cs[e]))>>
                          \o SubSeq(cs, e + 1, Len(cs))
                     ELSE SubSeq(cs, e, Len(cs))
             kept == IF cur_line # <<>> /\ IsBlank(cur_line[Len(cur_line)])
                     THEN SubSeq(cur_line, 1, Len(cur_line) - 1)
                     ELSE cur_line
         IN wrap_chunks(rest,
                        IF kept # <<>> THEN Append(lines, Concat(kept)) ELSE lines,
                        width)

\* textwrap.wrap(text, width)
wrap(text, width) == wrap_chunks(SplitChunks(munge_whitespace(text), 1), <<>>, width)

\* lines 50-54: the text of a cell, its strings stripped and joined by one
\* space, wrapped when it is longer than WrapWidth
cell_text(cell) ==
    Only({IF Len(text) > WrapWidth THEN join(<<NL>>, wrap(text, WrapWidth)) ELSE text :
          text \in {join(<<SP>>, content_parts(cell))}})

\* the largest number of a non-empty sequence of numbers
max(ns) == CHOOSE n \in {ns[i] : i \in 1..Len(ns)} : \A i \in 1..Len(ns) : ns[i] <= n

\* a row of fewer cells than columns is left as it is
row_data_unpadded(tr, max_columns) ==
    Only({[c \in 1..Len(cells) |-> cell_text(cells[c])] :
          cells \in {find_all(tr, {"td", "th"})}})

\* lines 46-58: the cells of a row, padded with empty cells up to max_columns
row_data(tr, max_columns) ==
    Only({[c \in 1..max(<<Len(cells), max_columns>>) |->
              IF c <= Len(cells) THEN cell_text(cells[c]) ELSE <<>>] :
          cells \in {find_all(tr, {"td", "th"})}})

\* lines 37-60: the table, one column per cell of the longest row and one row
\* per tr of the tree
build_table(tree) ==
    Only({Only({[columns |-> max_columns,
                 rows |-> [r \in 1..Len(trs) |-> row_data(trs[r], max_columns)]] :
                max_columns \in {max([r \in 1..Len(trs) |->
                                         Len(find_all(trs[r], {"td", "th"}))])}}) :
          trs \in {find_all(tree, {"tr"})}})

\* what console.print(rich_table) writes: rich lays the table out, the model
\* keeps the table that was printed
Printed(t) == [printed |-> t]

\* a table is printed even when the markup holds no row
NoRowsTest_never(tree) == FALSE

\* line 33: the markup holds no tr
NoRowsTest(tree) == Len(find_all(tree, {"tr"})) = 0

\* lines 27-34: None and "" are returned as "", and so is markup without tr
ConvertHtmlToTable ==
    /\ pc = "convert_html_to_table"
    /\ IF content.kind = "none" \/ content.markup = Elem(RootTag, <<>>)
       THEN /\ result' = <<>>
            /\ pc' = "table_returned"
            /\ soup' = soup
       ELSE \E tree \in {Parse(content.markup)} :
               /\ soup' = tree
               /\ IF NoRowsTest(tree)
                  THEN /\ result' = <<>>
                       /\ pc' = "table_returned"
                  ELSE /\ result' = result
                       /\ pc' = "build_table"
    /\ UNCHANGED <<content, selector, config, exc, log, value, fn, ret, rich_table, session>>

\* lines 37-60; max() of line 40 raises ValueError when there is no tr
BuildTable ==
    /\ pc = "build_table"
    /\ IF find_all(soup, {"tr"}) = <<>>
       THEN /\ exc' = "ValueError"
            /\ pc' = "table_raised"
            /\ rich_table' = rich_table
       ELSE /\ rich_table' = build_table(soup)
            /\ pc' = "print_table"
            /\ exc' = exc
    /\ UNCHANGED <<content, selector, config, soup, log, result, value, fn, ret, session>>

\* lines 63-68
PrintTable ==
    /\ pc = "print_table"
    /\ result' = Printed(rich_table)
    /\ pc' = "table_returned"
    /\ UNCHANGED <<content, selector, config, soup, exc, log, value, fn, ret, rich_table, session>>

---------------------------------------------------------------------------

Next ==
    \/ ConvertHtml
    \/ ConvertHtmlStr
    \/ SelectContainer
    \/ ProcessHeadings
    \/ ProcessLists
    \/ ProcessTables
    \/ ProcessCodeBlocks
    \/ ProcessBlockquotes
    \/ ProcessHorizontalRules
    \/ ProcessBasicFormatting
    \/ ProcessParagraphsFinal
    \/ CleanAndFormat
    \/ ConvertHtmlSoupExcept
    \/ ConvertHtmlExcept
    \/ ConvertHtmlAgain
    \/ ConvertTreeAgain
    \/ CallSafeDecimal
    \/ CallSafeInt
    \/ CallSafeStr
    \/ ConvertHtmlToTable
    \/ BuildTable
    \/ PrintTable

---------------------------------------------------------------------------
(* Inputs                                                                  *)

\* the state before a call of convert_html(content, selector) on a converter
\* built with config
CallOf(c, sel, cfg) ==
    /\ content = c
    /\ selector = sel
    /\ config = cfg
    /\ soup = Document(<<>>)
    /\ pc = "convert_html"
    /\ exc = "none"
    /\ log = <<>>
    /\ result = NoResult
    /\ value = [kind |-> "none"]
    /\ fn = "convert_html"
    /\ ret = [kind |-> "none"]
    /\ rich_table = NoTable
    /\ session = NoCalls

(* Plain text: markup that holds no tag *)

TextAlphabet == {"a", SP, NL, "&#32;", "&amp;#32;"}

Texts == UNION {[1..n -> TextAlphabet] : n \in 0..MaxLen}

\* the markup of a text without tags: what the parser turns into one text node
TextMarkup(s) == Document(IF s = <<>> THEN <<>> ELSE <<Text(s)>>)

InitText ==
    \E s \in Texts, k \in {"str", "other"} :
        CallOf(IF k = "str" THEN StrContent(TextMarkup(s)) ELSE OtherContent,
               NoSelector, DefaultConfig)

(* Tables *)

\* colspan values: absent, clean positive integers, and values that are not:
\* zero, negative, non-numeric, partially numeric, a float, empty, whitespace,
\* and the value a missing closing quote leaves (27'height=colspan='3')
CleanSpans == {<<"1">>, <<"2">>, <<"3">>}

NonPositiveSpans == {<<"0">>, <<"-", "1">>}

MalformedSpans ==
    {<<"a", "b", "c">>, <<"5", "a", "b", "c">>, <<"5", ".", "5">>, <<>>, <<SP>>,
     <<"2", "7", "'", "h", "e", "i", "g", "h", "t", "=", "c", "o", "l", "s",
       "p", "a", "n", "=", "'", "3", "'">>}

SpanValues == {Absent} \cup CleanSpans \cup NonPositiveSpans \cup MalformedSpans

\* a cell described by its tag and its colspan
CellShape(k, c) == [kind |-> k, colspan |-> c]

\* rows every table may hold
BasicRowShapes ==
    {<<CellShape("td", Absent)>>,
     <<CellShape("th", Absent)>>,
     <<CellShape("td", Absent), CellShape("td", Absent)>>,
     <<CellShape("th", Absent), CellShape("th", Absent)>>,
     <<CellShape("th", Absent), CellShape("td", Absent)>>,
     <<CellShape("td", <<"2">>)>>,
     <<CellShape("td", <<"2">>), CellShape("td", Absent)>>,
     <<CellShape("th", <<"2">>), CellShape("th", Absent)>>}

\* rows of which a table holds at most one: every colspan value on a td or th,
\* alone or before a plain td, and a zero span beside a double one
RichRowShapes ==
    {<<CellShape(k, c)>> : k \in {"td", "th"}, c \in SpanValues}
    \cup {<<CellShape(k, c), CellShape("td", Absent)>> :
             k \in {"td", "th"}, c \in SpanValues}
    \cup {<<CellShape("td", <<"2">>), CellShape("td", <<"0">>)>>}

\* the cell of row r, column c: its text is one letter, its own
Cell(shape, r, c) ==
    [Elem(shape.kind, <<Text(<<Letters[2 * (r - 1) + c]>>)>>)
        EXCEPT !.colspan = shape.colspan]

Row(shape, r) == Elem("tr", [c \in 1..Len(shape) |-> Cell(shape[c], r, c)])

Table(shapes) == Elem("table", [r \in 1..Len(shapes) |-> Row(shapes[r], r)])

TableShapes ==
    UNION {{f \in [1..n -> BasicRowShapes \cup RichRowShapes] :
               Cardinality({r \in 1..n : f[r] \notin BasicRowShapes}) <= 1} :
           n \in 1..MaxRows}

InitTable ==
    \E f \in TableShapes :
        CallOf(StrContent(Document(<<Table(f)>>)), NoSelector, DefaultConfig)

(* Documents: blocks of several kinds, in a row *)

BlockDocuments ==
    {BlockDocument(kinds) : kinds \in UNION {[1..n -> BlockKinds] : n \in 1..MaxBlocks}}

\* container_selector: None, the empty string, and type selectors, of which
\* "span" matches nothing
Selectors == {NoSelector, "", "div", "p", "table", "span"}

InitDoc ==
    \E d \in BlockDocuments, sel \in Selectors, k \in {"str", "soup"} :
        CallOf(IF k = "str" THEN StrContent(d) ELSE SoupContent(d), sel,
               DefaultConfig)

(* Documents of structural blocks, converted under every setting of the two
   structure switches *)

StructureKinds == {"p_b", "h1", "ul", "ol", "table", "pre", "blockquote", "hr"}

StructureDocuments ==
    {BlockDocument(kinds) :
        kinds \in UNION {[1..n -> StructureKinds] : n \in 1..MaxBlocks}}

InitSwitches ==
    \E d \in StructureDocuments, s \in BOOLEAN, t \in BOOLEAN :
        CallOf(StrContent(d), NoSelector, SwitchConfig(s, t))

(* Calls one after the other, on one converter or on several *)

InitRepeat ==
    \E c \in RepeatContents, sel \in RepeatSelectors, cfg \in RepeatConfigs :
        CallOf(c, sel, cfg)

(* Documents whose elements are nested, converted under several styles *)

\* type selectors whose first match is a heading, a list, a pre block, a
\* blockquote or an inline element
StyleSelectors == {"h1", "ul", "pre", "blockquote", "b"}

\* every document under every style without a selector, and under the default
\* configuration with every selector
InitStyled ==
    \E d \in StyledDocuments, k \in {"str", "soup"} :
        \E call \in {<<NoSelector, cfg>> : cfg \in StyleConfigs}
                     \cup {<<sel, DefaultConfig>> : sel \in StyleSelectors} :
            CallOf(IF k = "str" THEN StrContent(d) ELSE SoupContent(d),
                   call[1], call[2])

(* Calls of the type converters *)

MaxDigits == 3

\* numerals: every string of at most MaxDigits of these characters
NumeralAlphabet == {"0", "1", "5", "9", "."}

Numerals == UNION {[1..n -> NumeralAlphabet] : n \in 1..MaxDigits}

\* further strings: the names of the special values, exponents beyond every
\* range, the values around 10^10, strings that are no number, and a number
\* of more digits than the context's precision
Words ==
    {<<>>,
     <<"N", "a", "N">>, <<"n", "a", "n">>, <<"s", "N", "a", "N">>,
     <<"I", "n", "f", "i", "n", "i", "t", "y">>, <<"i", "n", "f">>,
     <<"1", "e", "9", "9", "9">>, <<"1", "e", "4", "0", "0">>,
     <<"0", "e", "9", "9", "9">>, <<"1", "e", "3", "0">>, <<"1", "E", "5">>,
     <<"1", "e", "-", "7">>, <<"1", "e">>, <<"e", "5">>, <<"a", "b", "c">>,
     <<"1", "_", "0">>, <<"_", "1">>,
     <<"1", "0", "0", "0", "0", "0", "0", "0", "0", "0", "0">>,
     <<"9", "9", "9", "9", "9", "9", "9", "9", "9", "9">>,
     <<"9", "9", "9", "9", "9", "9", "9", "9", "9", "9", ".",
       "9", "9", "9", "9", "9", "5">>,
     <<"9", "9", "9", "9", "9", "9", "9", "9", "9", "9", ".",
       "9", "9", "9", "9", "9", "4">>,
     <<"1", ".", "0", "0", "0", "0", "0", "5">>,
     <<"1", ".", "0", "0", "0", "0", "0", "4">>,
     <<"0", ".", "0", "0", "0", "1", "0", "4">> \o [i \in 1..29 |-> "9"]}

Prefixes == {<<>>, <<SP>>, <<"<">>, <<"<", SP>>, <<"-">>, <<"+">>, <<"<", "-">>}

Suffixes == {<<>>, <<SP>>}

ConverterValues ==
    {StrValue(p \o w \o s) : p \in Prefixes, w \in Numerals \cup Words, s \in Suffixes}
    \cup {NoneValue, OtherValue("list"), OtherValue("dict"),
          BoolValue(<<"T", "r", "u", "e">>), BoolValue(<<"F", "a", "l", "s", "e">>),
          IntValue(<<"0">>), IntValue(<<"4", "2">>), IntValue(<<"-", "7">>),
          IntValue(<<"1", "0", "0", "0", "0", "0", "0", "0", "0", "0", "0">>),
          FloatValue(<<"n", "a", "n">>), FloatValue(<<"i", "n", "f">>),
          FloatValue(<<"-", "i", "n", "f">>), FloatValue(<<"3", ".", "7">>),
          FloatValue(<<"-", "0", ".", "5">>), FloatValue(<<"1", "e", "+", "1", "6">>)}

\* the state before a call of the type converter f on v
ConverterCall(f, v) ==
    /\ fn = f
    /\ value = v
    /\ pc = f
    /\ ret = [kind |-> "none"]
    /\ exc = "none"
    /\ content = OtherContent
    /\ selector = NoSelector
    /\ config = DefaultConfig
    /\ soup = Document(<<>>)
    /\ log = <<>>
    /\ result = NoResult
    /\ rich_table = NoTable
    /\ session = NoCalls

InitConverter ==
    \E f \in {"safe_decimal", "safe_int"}, v \in ConverterValues : ConverterCall(f, v)

(* Calls of safe_str *)

StrAlphabet == {"a", SP, NL, TAB}

\* every string of at most MaxLen characters, and the values that are no str
StrValues ==
    {StrValue(s) : s \in UNION {[1..n -> StrAlphabet] : n \in 0..MaxLen}}
    \cup {v \in ConverterValues : v.kind # "str"}

InitSafeStr == \E v \in StrValues : ConverterCall("safe_str", v)

(* Calls of convert_html_to_table *)

\* a cell's text of more than WrapWidth characters: one word, and two words
LongWord == [i \in 1..(WrapWidth + 1) |-> "a"]

LongText == [i \in 1..150 |-> "a"] \o <<SP, TAB>> \o [i \in 1..60 |-> "b"]

\* tables of plain rows, the table without any row among them
RenderTables ==
    {Document(<<Table(f)>>) :
        f \in UNION {[1..n -> BasicRowShapes] : n \in 0..MaxRows}}

\* further markup: cells outside any tr, an empty tr, a cell of several
\* strings, cells of long text, and a table nested in a cell
RenderDocuments ==
    {Document(<<Elem("table", <<Elem("td", <<Text(<<"a">>)>>)>>)>>),
     Document(<<Elem("table", <<Elem("tr", <<>>)>>)>>),
     Document(<<Elem("tr", <<Elem("td", <<Text(<<SP, "a", SP>>),
                                          Elem("b", <<Text(<<"b", NL>>)>>),
                                          Text(<<SP>>)>>),
                             Elem("th", <<>>)>>),
                Elem("tr", <<Elem("td", <<Text(<<"c", SP, SP, "d">>)>>)>>)>>),
     Document(<<Table(<<<<CellShape("td", Absent)>>>>),
                Elem("p", <<Text(<<"x">>)>>),
                Table(<<<<CellShape("th", Absent), CellShape("td", Absent)>>>>)>>),
     Document(<<Elem("table", <<Elem("tr", <<Elem("td", <<Text(LongWord)>>)>>)>>)>>),
     Document(<<Elem("table", <<Elem("tr", <<Elem("td", <<Text(LongText)>>),
                                             Elem("td", <<Text(<<"c">>)>>)>>)>>)>>),
     Document(<<Elem("table",
                     <<Elem("tr", <<Elem("td", <<Text(<<"a">>),
                                                 Table(<<<<CellShape("td", Absent),
                                                           CellShape("td", Absent)>>>>)>>)>>),
                       Elem("tr", <<Elem("td", <<Text(<<"b">>)>>)>>)>>)>>)}

\* the state before a call of convert_html_to_table(html_string)
TableCall(c) ==
    /\ fn = "convert_html_to_table"
    /\ content = c
    /\ pc = "convert_html_to_table"
    /\ rich_table = NoTable
    /\ session = NoCalls
    /\ result = NoResult
    /\ exc = "none"
    /\ selector = NoSelector
    /\ config = DefaultConfig
    /\ soup = Document(<<>>)
    /\ log = <<>>
    /\ value = [kind |-> "none"]
    /\ ret = [kind |-> "none"]

InitRender ==
    \/ TableCall(NoneContent)
    \/ \E d \in RenderTables \cup RenderDocuments \cup BlockDocuments
                  \cup {TextMarkup(s) : s \in {<<>>, <<SP>>, <<"a">>}} :
           TableCall(StrContent(d))

Init ==
    \/ InitText
    \/ InitTable
    \/ InitDoc
    \/ InitSwitches
    \/ InitRepeat
    \/ InitStyled
    \/ InitConverter
    \/ InitSafeStr
    \/ InitRender

Spec == Init /\ [][Next]_vars

---------------------------------------------------------------------------
(* Properties                                                              *)

Returned == pc = "returned"

Terminated == pc \in {"returned", "raised"}

\* the tree the passes receive: the markup parsed, or the tree handed in
InputTree == IF content.kind = "str" THEN Parse(content.markup) ELSE content.markup

\* no container is selected: the selector is None or empty
NoContainer == selector \in {NoSelector, ""}

\* the configuration lets the table pass run (lines 74 and 93)
TablePassRuns == config.preserve_structure /\ config.preserve_tables

\* the call converts markup that is one table and nothing else, and the table
\* pass runs
SingleTableInput ==
    /\ TablePassRuns
    /\ content.kind \in {"str", "soup"}
    /\ NoContainer
    /\ Len(content.markup.kids) = 1
    /\ content.markup.kids[1].tag = "table"

InputTable == InputTree.kids[1]

\* the rows of the input table, each a sequence of cells
InputRows == [r \in 1..Len(InputTable.kids) |-> InputTable.kids[r].kids]

HasTh(row) == \E c \in 1..Len(row) : row[c].tag = "th"

HasTd(row) == \E c \in 1..Len(row) : row[c].tag = "td"

\* the lines of a returned string, without its final newline
OutLines(r) == split(SubSeq(r, 1, Len(r) - 1), NL)

\* the cells of a pipe-delimited line
LineCells(line) ==
    Only({[i \in 1..(Len(parts) - 2) |-> strip(parts[i + 1])] :
          parts \in {split(line, "|")}})

\* the number a clean positive colspan value denotes
SpanNumber(c) == CASE c = <<"1">> -> 1 [] c = <<"2">> -> 2 [] c = <<"3">> -> 3

\* a line holds text in some cell, then exactly n - 1 empty cells
SpansColumns(cells, text, n) ==
    \E q \in 1..Len(cells) :
        /\ cells[q] = text
        /\ q + n - 1 <= Len(cells)
        /\ \A j \in 1..(n - 1) : cells[q + j] = <<>>
        /\ q + n <= Len(cells) => cells[q + n] # <<>>

\* the table cells whose colspan is malformed
MalformedCells ==
    {rc \in {<<r, c>> : r \in 1..MaxRows + 1, c \in 1..2} :
        /\ rc[1] <= Len(InputRows)
        /\ rc[2] <= Len(InputRows[rc[1]])
        /\ InputRows[rc[1]][rc[2]].colspan \in MalformedSpans}

\* C1: a table cell whose colspan is malformed (non-numeric, stray quotes,
\* partially numeric, a float, empty, whitespace) never makes the conversion
\* raise, and the returned string contains the cell's text.
C1_MalformedColspanKeepsText ==
    (SingleTableInput /\ Terminated) =>
        \A rc \in MalformedCells :
            /\ pc = "returned"
            /\ Contains(get_text(InputRows[rc[1]][rc[2]]), result)

\* the value is a str or float that denotes an infinity or a NaN, behind an
\* optional "<"
DenotesNonFinite(v) ==
    /\ v.kind \in {"str", "float"}
    /\ LET t == strip(v.text)
           body == IF t # <<>> /\ t[1] = "<" THEN strip(Tail(t)) ELSE t
       IN ParseDecimal(body).ok /\ ParseDecimal(body).d.cls # "finite"

\* C3: safe_decimal never raises, and returns None for every input that
\* denotes an infinity or a NaN ('Infinity', 'NaN', '<NaN', the floats).
C3_SafeDecimalNeverRaises ==
    fn = "safe_decimal" =>
        /\ pc # "safe_decimal_raised"
        /\ (pc = "safe_decimal_returned" /\ DenotesNonFinite(value)) =>
               ret.kind = "None"

\* float(value) fails, or gives a float that int() refuses
FloatThenIntFails(v) ==
    \/ float_of(v).exc # "none"
    \/ float_of(v).d.cls \in {"inf", "nan"}

\* C4: safe_int never raises, and returns None for every value whose
\* float-then-int conversion fails ('inf', '1e999', 'nan', non-numbers).
C4_SafeIntNeverRaises ==
    fn = "safe_int" =>
        /\ pc # "safe_int_raised"
        /\ (pc = "safe_int_returned" /\ FloatThenIntFails(value)) =>
               ret.kind = "None"

\* the texts of a tree that are one letter
LetterSet == {Letters[i] : i \in 1..Len(Letters)}

LettersOf(n) ==
    Only({{t[i] : i \in 1..Len(t)} \cap LetterSet : t \in {get_text(n)}})

\* C2: every text of the input appears in the returned string, whichever table
\* row, cell kind or list position it sits in (whole-document conversion).
C2_NoTextDropped ==
    (Returned /\ NoContainer) =>
        \A x \in LettersOf(InputTree) : Contains(<<x>>, result)

\* C5: content that is neither str nor BeautifulSoup/Tag makes convert_html
\* raise, after an error-level log record, without ever returning a string; and
\* an exception raised during a conversion is never swallowed: it is logged at
\* error level and reaches the caller.
C5_InvalidInputRaises ==
    fn = "convert_html" =>
        /\ content.kind \notin {"str", "soup"} =>
              /\ result = NoResult
              /\ pc \in {"convert_html", "convert_html_except", "raised"}
        /\ exc # "none" =>
              /\ result = NoResult
              /\ pc \in {"convert_html_soup_except", "convert_html_except", "raised"}
        /\ pc = "raised" =>
              /\ exc # "none"
              /\ log # <<>>
              /\ log[Len(log)] = ErrorRecord("Error converting HTML")
              /\ \A i \in 1..Len(log) : log[i].level = "error"
        /\ pc = "returned" => exc = "none" /\ result # NoResult

C5_Witness ==
    /\ pc = "raised"
    /\ content.kind = "other"
    /\ exc = "ValueError"
    /\ log = <<ErrorRecord("Error converting HTML")>>

\* the cells the table pass emits: the th cells of the first row that holds a
\* th (the header row), and the td cells of the rows that hold no th
EmittedCells ==
    {rc \in {<<r, c>> : r \in 1..MaxRows + 1, c \in 1..2} :
        /\ rc[1] <= Len(InputRows)
        /\ rc[2] <= Len(InputRows[rc[1]])
        /\ \/ /\ InputRows[rc[1]][rc[2]].tag = "th"
              /\ \A j \in 1..(rc[1] - 1) : ~HasTh(InputRows[j])
           \/ /\ InputRows[rc[1]][rc[2]].tag = "td"
              /\ ~HasTh(InputRows[rc[1]])}

\* C6: a th header cell or td data cell with colspan a positive integer n is
\* emitted as its text followed by exactly n - 1 empty cells.
C6_ColspanHonored ==
    (SingleTableInput /\ Returned) =>
        \A rc \in EmittedCells :
            LET cell == InputRows[rc[1]][rc[2]]
            IN cell.colspan \in CleanSpans =>
                  \E k \in 1..Len(OutLines(result)) :
                      SpansColumns(LineCells(OutLines(result)[k]), get_text(cell),
                                   SpanNumber(cell.colspan))

C6_Witness ==
    /\ Returned
    /\ content.markup =
          Document(<<Table(<<
              <<CellShape("th", <<"2">>), CellShape("th", Absent)>>,
              <<CellShape("td", <<"3">>)>> >>)>>)
    /\ OutLines(result) =
          << <<"|", SP, "A", SP, "|", SP, "|", SP, "B", SP, "|">>,
             <<"|", SP, "-", "-", "-", SP, "|", SP, "-", "-", "-", SP, "|", SP,
               "-", "-", "-", SP, "|">>,
             <<"|", SP, "C", SP, "|", SP, "|", SP, "|">> >>

\* the row of the input table a letter sits in
RowOfLetter(x) ==
    IF \E r \in 1..Len(InputTable.kids) : x \in LettersOf(InputTable.kids[r])
    THEN CHOOSE r \in 1..Len(InputTable.kids) : x \in LettersOf(InputTable.kids[r])
    ELSE 0

\* the header row the table pass identifies in the input table, 0 if none
HeaderRow == table_out(InputTable).header_row_index

\* the rows emitted as data: not the header row, no th, some td
DataRows ==
    SelectSeq([r \in 1..Len(InputRows) |-> r],
              LAMBDA r : r # HeaderRow /\ ~HasTh(InputRows[r]) /\ HasTd(InputRows[r]))

\* C7: when a header row is identified, the table's output is the header line,
\* then a separator line with one --- cell per header column, then every data
\* row in document order, also when the header row is not the first row.
C7_HeaderSeparatorData ==
    (SingleTableInput /\ Returned /\ HeaderRow # 0) =>
        LET lines == OutLines(result)
            header == LineCells(lines[1])
        IN /\ Len(lines) = 2 + Len(DataRows)
           /\ header # <<>>
           /\ header[1] # <<>>
           /\ RowOfLetter(header[1][1]) = HeaderRow
           /\ LineCells(lines[2]) = [i \in 1..Len(header) |-> <<"-", "-", "-">>]
           /\ \A k \in 1..Len(DataRows) :
                 /\ LineCells(lines[2 + k]) # <<>>
                 /\ LineCells(lines[2 + k])[1] # <<>>
                 /\ RowOfLetter(LineCells(lines[2 + k])[1][1]) = DataRows[k]

C7_Witness ==
    /\ Returned
    /\ SingleTableInput
    /\ HeaderRow = 2
    /\ result = <<"|", SP, "C", SP, "|", SP, "D", SP, "|", NL,
                  "|", SP, "-", "-", "-", SP, "|", SP, "-", "-", "-", SP, "|", NL,
                  "|", SP, "A", SP, "|", NL>>

\* the call converts a str that holds no tag
PlainTextInput ==
    /\ content.kind = "str"
    /\ \A i \in 1..Len(content.markup.kids) : IsText(content.markup.kids[i])

\* the text of the markup, as written
InputText == get_text(content.markup)

\* C8 as stated: a text without markup comes back unchanged, plus a newline.
C8_PlainTextRoundTrip ==
    (PlainTextInput /\ Returned) => result = InputText \o <<NL>>

IsReference(c) == UnescapeToken(c) # c

\* a text the cleanup has nothing to do on: no character reference, no
\* whitespace at either end, no two spaces in a row, and no two newlines
\* separated by anything but nothing
Normalized(t) ==
    /\ \A i \in 1..Len(t) : ~IsReference(t[i])
    /\ t # <<>> => ~IsSpace(t[1]) /\ ~IsSpace(t[Len(t)])
    /\ \A i \in 1..(Len(t) - 1) : ~(t[i] = SP /\ t[i + 1] = SP)
    /\ \A i \in 1..Len(t) : \A j \in (i + 2)..Len(t) :
          ~(/\ t[i] = NL
            /\ t[j] = NL
            /\ \A k \in (i + 1)..(j - 1) : IsSpace(t[k]))

\* C8 amended: a text without markup that is normalized comes back unchanged,
\* plus a newline.
C8_NormalizedTextRoundTrip ==
    (PlainTextInput /\ Returned /\ Normalized(InputText)) =>
        result = InputText \o <<NL>>

C8_Witness ==
    /\ Returned
    /\ PlainTextInput
    /\ InputText = <<"a", SP, "a", NL, "a">>
    /\ result = <<"a", SP, "a", NL, "a", NL>>

\* C9: the returned string is a text without whitespace at either end,
\* followed by exactly one newline.
C9_OneTrailingNewline ==
    Returned =>
        /\ Len(result) >= 1
        /\ result[Len(result)] = NL
        /\ Len(result) >= 2 =>
              ~IsSpace(result[1]) /\ ~IsSpace(result[Len(result) - 1])

C9_Witness ==
    /\ Returned
    /\ PlainTextInput
    /\ InputText = <<"&amp;#32;", "a", NL, SP>>
    /\ result = <<"a", NL>>

\* _process_structure, lines 90-96: the structural passes in their order, the
\* table pass only when preserve_tables is set
process_structure(cfg, n) ==
    Only({process_horizontal_rules(cfg, d) :
          d \in {process_blockquotes(cfg, c) :
          c \in {process_code_blocks(cfg, b) :
          b \in {IF cfg.preserve_tables THEN process_tables(cfg, a) ELSE a :
          a \in {process_lists(cfg, h) :
          h \in {process_headings(cfg, n)}}}}}})

\* the conversion of a whole tree: the passes in the order of
\* convert_html_soup (lines 74-82), then the cleanup
WholeConversion(cfg, n) ==
    Only({clean_and_format(get_text(g)) :
          g \in {process_paragraphs_final(cfg, f) :
          f \in {process_basic_formatting(cfg, s) :
          s \in {IF cfg.preserve_structure THEN process_structure(cfg, n) ELSE n}}}})

\* the selector matches an element of the input
SelectorMatches == ~NoContainer /\ find_all(InputTree, {selector}) # <<>>

FirstMatch == find_all(InputTree, {selector})[1]

\* C10: with a matching selector the output holds no text from outside the
\* first matching element; with no selector, an empty one or one that matches
\* nothing, the output is the conversion of the whole document, and no error
\* is raised.
C10_ContainerSelection ==
    (Terminated /\ content.kind \in {"str", "soup"} /\ ~tables_raise(config, InputTree)) =>
        IF SelectorMatches
        THEN /\ Returned
             /\ \A x \in LettersOf(InputTree) \ LettersOf(FirstMatch) :
                    ~Contains(<<x>>, result)
        ELSE /\ Returned
             /\ result = WholeConversion(config, InputTree)

C10_Witness ==
    /\ Returned
    /\ selector = "div"
    /\ content.markup = BlockDocument(<<"p", "div">>)
    /\ result = <<"C", NL, NL, "D", NL>>

\* the tree convert_html_soup works on: the selected container
Container == container_of(InputTree, selector)

StructureTags ==
    {"h1", "h2", "h3", "h4", "h5", "h6", "ol", "ul", "table", "pre", "blockquote",
     "hr"}

StructurePositions ==
    {"process_headings", "process_lists", "process_tables", "process_code_blocks",
     "process_blockquotes", "process_horizontal_rules"}

\* the tree after the inline-formatting pass and the paragraph pass alone
InlineThenParagraphs(cfg, n) ==
    Only({process_paragraphs_final(cfg, f) : f \in {process_basic_formatting(cfg, n)}})

\* the tree after every pass but the table pass
AllButTables(cfg, n) ==
    Only({process_paragraphs_final(cfg, f) :
          f \in {process_basic_formatting(cfg, e) :
          e \in {process_horizontal_rules(cfg, d) :
          d \in {process_blockquotes(cfg, c) :
          c \in {process_code_blocks(cfg, a) :
          a \in {process_lists(cfg, h) :
          h \in {process_headings(cfg, n)}}}}}}})

\* C11: with preserve_structure false no structural pass runs, whatever
\* preserve_tables is: the inline-formatting pass receives the container as it
\* was selected, the paragraph pass follows it, and every heading, list,
\* table, code block, blockquote and horizontal rule is still an element when
\* the text is taken.  With preserve_structure true and preserve_tables false
\* only the table pass is skipped and every table is still an element.
C11_StructureSwitches ==
    fn = "convert_html" =>
        /\ ~config.preserve_structure =>
              /\ pc \notin StructurePositions
              /\ pc = "process_basic_formatting" => soup = Container
              /\ pc = "process_paragraphs_final" =>
                    soup = process_basic_formatting(config, Container)
              /\ pc = "clean_and_format" =>
                    /\ soup = InlineThenParagraphs(config, Container)
                    /\ \A t \in StructureTags :
                          Len(find_all(soup, {t})) = Len(find_all(Container, {t}))
              /\ pc = "returned" =>
                    result = clean_and_format(
                                 get_text(InlineThenParagraphs(config, Container)))
        /\ (config.preserve_structure /\ ~config.preserve_tables) =>
              /\ pc # "process_tables"
              /\ pc = "process_code_blocks" =>
                    soup = process_lists(config, process_headings(config, Container))
              /\ pc = "clean_and_format" =>
                    /\ soup = AllButTables(config, Container)
                    /\ Len(find_all(soup, {"table"}))
                          = Len(find_all(Container, {"table"}))

C11_Witness ==
    /\ Returned
    /\ ~config.preserve_structure
    /\ config.preserve_tables
    /\ content.markup = BlockDocument(<<"h1", "p_b">>)
    /\ result = <<"A", NL, "C", SP, "*", "*", "D", "*", "*", NL>>

\* a + b and a < b for natural numbers of any lengths
NatAdd(a, b) ==
    LET n == IF Len(a) > Len(b) THEN Len(a) ELSE Len(b)
    IN StripZeros(AddDigits(PadTo(a, n), PadTo(b, n)))

NatLess(a, b) ==
    LET n == IF Len(a) > Len(b) THEN Len(a) ELSE Len(b)
    IN Less(PadTo(a, n), PadTo(b, n))

\* the call is safe_decimal(value) and it returned
DecimalReturned == fn = "safe_decimal" /\ pc = "safe_decimal_returned"

\* the text safe_decimal parses, with the "<" it may start with
DecimalText == strip(value.text)

LessThanInput ==
    value.kind = "str" /\ DecimalText # <<>> /\ DecimalText[1] = "<"

\* what the parse stage of safe_decimal (lines 37-55) makes of the value: the
\* number read, less 0.0001 when the text starts with "<"; ok = FALSE when
\* the stage gives up
Parsed ==
    IF value.kind \notin {"str", "int", "float"} \/ DecimalText = <<>>
    THEN [ok |-> FALSE, d |-> Special("nan", FALSE)]
    ELSE IF LessThanInput
    THEN Only({IF p.ok THEN Minus0001(p.d) ELSE p :
               p \in {ParseDecimal(strip(Tail(DecimalText)))}})
    ELSE ParseDecimal(DecimalText)

\* the parse stage yields a finite number
FiniteInput == Parsed.ok /\ Parsed.d.cls = "finite"

\* the number the parse stage yields
ParsedInput == Parsed.d

\* c * 10^-5 is |d| rounded half-up at the fifth decimal: the two are equal
\* when d has at most five decimals, else they differ by at most half a unit
\* of the fifth decimal, and by exactly half only when c is the larger one
IsHalfUpRounding(c, d) ==
    IF IsZero(d.coef) THEN IsZero(c)
    ELSE IF d.exp >= 0 - 5 THEN StripZeros(c) = StripZeros(d.coef \o Zeros(d.exp + 5))
    ELSE LET k == 0 - 5 - d.exp
             x == c \o Zeros(k)
             half == <<5>> \o Zeros(k - 1)
         IN /\ ~NatLess(NatAdd(d.coef, half), x)
            /\ NatLess(d.coef, NatAdd(x, half))

\* |d| rounded half-up at the fifth decimal is 10^10 or more
RoundsBeyondRange(d) ==
    /\ ~IsZero(d.coef)
    /\ \/ Len(d.coef) + d.exp > 11
       \/ /\ Len(d.coef) + d.exp >= 10
          /\ LET u == IF d.exp < 0 - 6 THEN d.exp ELSE 0 - 6
             IN ~NatLess(NatAdd(d.coef \o Zeros(d.exp - u), <<5>> \o Zeros(0 - 6 - u)),
                         <<1>> \o Zeros(10 - u))

\* C12: a result of safe_decimal that is not None has exactly 5 fractional
\* digits and an absolute value below 10^10, and it is the parsed input (the
\* number the parse stage yields) rounded half-up at the fifth decimal; an
\* input whose rounded absolute value is 10^10 or more gives None.
C12_QuantizedResult ==
    DecimalReturned =>
        /\ ret.kind = "Decimal" =>
              /\ ret.exp = 0 - 5
              /\ Len(StripZeros(ret.coef)) <= 15
        /\ ret.kind = "Decimal" =>
              /\ FiniteInput
              /\ IsHalfUpRounding(ret.coef, ParsedInput)
              /\ ret.neg = ParsedInput.neg
        /\ (FiniteInput /\ RoundsBeyondRange(ParsedInput)) => ret.kind = "None"

C12_Witness ==
    /\ DecimalReturned
    /\ value = StrValue(<<"1", ".", "0", "0", "0", "0", "0", "5">>)
    /\ ret = DecimalValue(Finite(FALSE, <<1, 0, 0, 0, 0, 1>>, 0 - 5))

\* the number N of an input "<N"
LessThanOperand == ParseDecimal(strip(Tail(DecimalText)))

\* d - 0.0001 computed exactly, for a finite d of moderate exponent
ExactMinus0001(d) ==
    LET u == IF d.exp < 0 - 4 THEN d.exp ELSE 0 - 4
        a == d.coef \o Zeros(d.exp - u)
        b == <<1>> \o Zeros(0 - 4 - u)
        n == IF Len(a) > Len(b) THEN Len(a) ELSE Len(b)
    IN IF d.neg THEN Finite(TRUE, NatAdd(a, b), u)
       ELSE IF NatLess(a, b)
       THEN Finite(TRUE, StripZeros(SubDigits(PadTo(b, n), PadTo(a, n))), u)
       ELSE Finite(FALSE, StripZeros(SubDigits(PadTo(a, n), PadTo(b, n))), u)

\* r < q for two results of safe_decimal
DecimalLess(r, q) ==
    IF r.neg /\ ~q.neg THEN ~(IsZero(r.coef) /\ IsZero(q.coef))
    ELSE IF ~r.neg /\ q.neg THEN FALSE
    ELSE IF r.neg THEN NatLess(q.coef, r.coef)
    ELSE NatLess(r.coef, q.coef)

\* C13: for a str "<N", whitespace allowed around, with N a finite number,
\* safe_decimal returns N - 0.0001 rounded half-up to 5 decimals (None when
\* that is 10^10 or more in absolute value), and the result is less than
\* safe_decimal(N) when that is not None.
C13_LessThanResult ==
    (/\ DecimalReturned
     /\ LessThanInput
     /\ LessThanOperand.ok
     /\ LessThanOperand.d.cls = "finite"
     /\ Len(LessThanOperand.d.coef) + LessThanOperand.d.exp <= 12) =>
        LET exact == ExactMinus0001(LessThanOperand.d)
            plain == safe_decimal(StrValue(strip(Tail(DecimalText))))
        IN IF RoundsBeyondRange(exact) THEN ret.kind = "None"
           ELSE /\ ret.kind = "Decimal"
                /\ IsHalfUpRounding(ret.coef, exact)
                /\ IsZero(ret.coef) \/ ret.neg = exact.neg
                /\ plain.ret.kind = "Decimal" => DecimalLess(ret, plain.ret)

(* convert_html_to_table *)

RenderCall == fn = "convert_html_to_table"

\* the rows of the markup handed to convert_html_to_table, in document order
InputTrs == find_all(InputTree, {"tr"})

\* the input is None, the empty string, or markup without any tr
NoRowInput ==
    \/ content.kind = "none"
    \/ content.kind = "str" /\ InputTrs = <<>>

\* C14: convert_html_to_table returns the empty string for None, for the
\* empty string and for every markup that holds no tr, and raises for none of
\* them
C14_NoRowsEmptyString ==
    (RenderCall /\ NoRowInput) =>
        /\ pc \in {"convert_html_to_table", "table_returned"}
        /\ exc = "none"
        /\ pc = "table_returned" => result = <<>>

\* the call returned for markup that holds a table and cells, yet no tr
C14_Witness ==
    /\ RenderCall
    /\ pc = "table_returned"
    /\ result = <<>>
    /\ content.kind = "str"
    /\ find_all(InputTree, {"table"}) # <<>>
    /\ find_all(InputTree, {"td"}) # <<>>
    /\ InputTrs = <<>>

\* the characters of s that are no whitespace, in order
NonSpace(s) ==
    Only({[k \in 1..Cardinality(at) |-> s[CHOOSE i \in at : rank[i] = k]] :
          rank \in {[i \in 1..Len(s) |-> Cardinality({j \in at : j <= i})] :
                    at \in {{i \in 1..Len(s) : ~IsSpace(s[i])}}},
          at \in {{i \in 1..Len(s) : ~IsSpace(s[i])}}})

\* the td and th of row r of the input
InputCells(r) == find_all(InputTrs[r], {"td", "th"})

\* the table is built
TableBuilt == RenderCall /\ pc \in {"print_table", "table_returned"} /\ ~NoRowInput

\* C15: with at least one tr, the table has as many columns as the longest
\* row has td/th cells and one row per tr in document order; every row has
\* exactly that many cells, the texts of its own cells in order and empty
\* cells after them
C15_ColumnsRowsPadding ==
    TableBuilt =>
        /\ \A r \in 1..Len(InputTrs) : Len(InputCells(r)) <= rich_table.columns
        /\ \E r \in 1..Len(InputTrs) : Len(InputCells(r)) = rich_table.columns
        /\ Len(rich_table.rows) = Len(InputTrs)
        /\ \A r \in 1..Len(InputTrs) :
              /\ Len(rich_table.rows[r]) = rich_table.columns
              /\ \A c \in 1..rich_table.columns :
                    IF c <= Len(InputCells(r))
                    THEN /\ NonSpace(rich_table.rows[r][c])
                               = NonSpace(get_text(InputCells(r)[c]))
                         /\ Len(strings(InputCells(r)[c])) = 1
                                /\ Len(strings(InputCells(r)[c])[1]) <= WrapWidth
                            => rich_table.rows[r][c]
                                   = strip(strings(InputCells(r)[c])[1])
                    ELSE rich_table.rows[r][c] = <<>>
        /\ pc = "table_returned" => result = Printed(rich_table)

\* a table of two rows was printed, the second row shorter than the first
C15_Witness ==
    /\ TableBuilt
    /\ pc = "table_returned"
    /\ Len(InputTrs) = 2
    /\ Len(InputCells(1)) = 2
    /\ Len(InputCells(2)) = 1
    /\ rich_table.rows[2][2] = <<>>
    /\ rich_table.rows[2][1] # <<>>

(* safe_str *)

StrReturned == fn = "safe_str" /\ pc = "safe_str_returned"

\* t is s without the whitespace at its two ends: s is whitespace, t, and
\* whitespace again, and t neither starts nor ends with whitespace
IsStripped(t, s) ==
    /\ t = <<>> \/ (~IsSpace(t[1]) /\ ~IsSpace(t[Len(t)]))
    /\ \E i \in 0..(Len(s) - Len(t)) :
          /\ SubSeq(s, i + 1, i + Len(t)) = t
          /\ \A j \in (1..i) \cup ((i + Len(t) + 1)..Len(s)) : IsSpace(s[j])

\* C16: safe_str returns the stripped input exactly when the input is a str
\* with a character that is no whitespace, and None for every other value; a
\* result that is not None is returned unchanged by a second call
C16_SafeStr ==
    StrReturned =>
        /\ exc = "none"
        /\ IF value.kind = "str" /\ \E i \in 1..Len(value.text) : ~IsSpace(value.text[i])
           THEN /\ ret.kind = "str"
                /\ IsStripped(ret.text, value.text)
           ELSE ret.kind = "None"
        /\ ret.kind # "None" => safe_str(ret) = Returns(ret)

\* a str with whitespace at both ends and inside was stripped
C16_Witness ==
    /\ StrReturned
    /\ ret.kind = "str"
    /\ Len(value.text) = Len(ret.text) + 2
    /\ \E i \in 1..Len(ret.text) : IsSpace(ret.text[i])

(* Calls one after the other *)

\* the arguments of the finished call i are those of the present call
SameArguments(i) ==
    /\ session.calls[i].content = content
    /\ session.calls[i].selector = selector
    /\ session.calls[i].config = config

\* the finished calls i and j had the same arguments
SameArgumentsOf(i, j) ==
    /\ session.calls[i].content = session.calls[j].content
    /\ session.calls[i].selector = session.calls[j].selector
    /\ session.calls[i].config = session.calls[j].config

\* C17: two calls of convert_html with the same markup, selector and
\* configuration do the same, on one converter or on two and whatever was
\* converted in between: they return the same string, or both raise
C17_Deterministic ==
    /\ \A i \in 1..Len(session.calls) :
          (fn = "convert_html" /\ Terminated /\ SameArguments(i)) =>
              /\ session.calls[i].result = result
              /\ session.calls[i].exc = exc
    /\ \A i, j \in 1..Len(session.calls) :
          SameArgumentsOf(i, j) =>
              /\ session.calls[i].result = session.calls[j].result
              /\ session.calls[i].exc = session.calls[j].exc

\* a converter returned a string, converted other markup under another
\* selector, and another converter returned for the arguments of the first call
C17_Witness ==
    /\ fn = "convert_html"
    /\ pc = "returned"
    /\ Len(session.calls) = 2
    /\ SameArguments(1)
    /\ session.calls[1].result = result
    /\ Len(result) > 1
    /\ session.calls[2].content # content
    /\ session.calls[2].selector # selector
    /\ session.calls[2].converter = session.calls[1].converter
    /\ session.converter # session.calls[1].converter

(* The rows of the table pass *)

\* the lines of the returned string, none when nothing but the newline is
\* returned
ResultLines == IF result = <<NL>> THEN <<>> ELSE OutLines(result)

\* the texts of the td cells of a row, in order
TdTexts(row) ==
    Only({[c \in 1..Len(tds) |-> strip(get_text(tds[c]))] :
          tds \in {SelectSeq(row, LAMBDA cell : cell.tag = "td")}})

\* the cells of a line that hold text
FilledCells(line) == SelectSeq(LineCells(line), LAMBDA cell : cell # <<>>)

\* the rows other than the header row that hold a td
RowsWithTd ==
    SelectSeq([r \in 1..Len(InputRows) |-> r],
              LAMBDA r : r # HeaderRow /\ HasTd(InputRows[r]))

\* the number of lines the header takes: the header line and the separator
HeaderLines == IF HeaderRow # 0 THEN 2 ELSE 0

\* C18: every row other than the header that holds at least one td is
\* emitted as a data row carrying its td texts, in document order; the rows
\* left out are those made of th cells only
C18_RowsWithTdEmitted ==
    (SingleTableInput /\ Returned) =>
        /\ Len(ResultLines) = HeaderLines + Len(RowsWithTd)
        /\ \A k \in 1..Len(RowsWithTd) :
              HeaderLines + k <= Len(ResultLines)
              => FilledCells(ResultLines[HeaderLines + k])
                     = TdTexts(InputRows[RowsWithTd[k]])

(* The header of the table pass *)

\* the texts of the th cells of a row, in order
ThTexts(row) ==
    Only({[c \in 1..Len(ths) |-> strip(get_text(ths[c]))] :
          ths \in {SelectSeq(row, LAMBDA cell : cell.tag = "th")}})

\* the sum of the colspan values of the td cells of a row, a cell without the
\* attribute counting 1
TdSpanSum(row, c) ==
    LET RECURSIVE Sum(_)
        Sum(i) == IF i > Len(row) THEN 0
                  ELSE (IF row[i].tag = "td" THEN colspan_of(row[i]).v ELSE 0)
                       + Sum(i + 1)
    IN Sum(c)

\* row r holds more than one td, and the colspan values of its td sum to
\* their number
PlainTdRow(r) ==
    /\ Len(TdTexts(InputRows[r])) > 1
    /\ TdSpanSum(InputRows[r], 1) = Len(TdTexts(InputRows[r]))

\* the first row of the input table that satisfies P, 0 if none does
FirstRow(P(_)) ==
    IF \E r \in 1..Len(InputRows) : P(r)
    THEN CHOOSE r \in 1..Len(InputRows) : P(r) /\ \A q \in 1..(r - 1) : ~P(q)
    ELSE 0

RowHasTh(r) == HasTh(InputRows[r])

\* the header as the claim describes it: the first row with a th, else the
\* first plain row of several td, else none (0)
ExpectedHeader ==
    IF FirstRow(RowHasTh) # 0 THEN FirstRow(RowHasTh) ELSE FirstRow(PlainTdRow)

IsSeparatorLine(line) ==
    /\ LineCells(line) # <<>>
    /\ \A i \in 1..Len(LineCells(line)) : LineCells(line)[i] = <<"-", "-", "-">>

EffectiveSpan(cell) == IF colspan_of(cell).v < 1 THEN 1 ELSE colspan_of(cell).v

\* the sum of the effective spans of the td cells of a row, from cell c on
RECURSIVE EffectiveSpanSum(_, _)
EffectiveSpanSum(row, c) ==
    IF c > Len(row) THEN 0
    ELSE (IF row[c].tag = "td" THEN EffectiveSpan(row[c]) ELSE 0)
         + EffectiveSpanSum(row, c + 1)

\* row r holds more than one td, and the effective spans of its td sum to
\* their number
EffectivePlainTdRow(r) ==
    /\ Len(TdTexts(InputRows[r])) > 1
    /\ EffectiveSpanSum(InputRows[r], 1) = Len(TdTexts(InputRows[r]))

\* the header when a span of zero or below counts as 1 in the summed-span test
EffectiveHeader ==
    IF FirstRow(RowHasTh) # 0 THEN FirstRow(RowHasTh)
    ELSE FirstRow(EffectivePlainTdRow)

\* the input table holds a cell whose colspan is zero or negative
HasNonPositiveSpan ==
    \E r \in 1..Len(InputRows) : \E c \in 1..Len(InputRows[r]) :
        InputRows[r][c].colspan \in NonPositiveSpans

\* C20: a colspan of 0 or of a negative number is a span of 1 everywhere: the
\* cell takes exactly one column in a header row and in a data row, and the
\* summed-span test that picks the header counts the cell as 1
C20_NonPositiveSpanIsOne ==
    (SingleTableInput /\ Returned /\ HasNonPositiveSpan) =>
        /\ \A rc \in EmittedCells :
              InputRows[rc[1]][rc[2]].colspan \in NonPositiveSpans =>
                  \E k \in 1..Len(ResultLines) :
                      SpansColumns(LineCells(ResultLines[k]),
                                   get_text(InputRows[rc[1]][rc[2]]), 1)
        /\ IF EffectiveHeader = 0
           THEN \A k \in 1..Len(ResultLines) : ~IsSeparatorLine(ResultLines[k])
           ELSE /\ Len(ResultLines) >= 2
                /\ FilledCells(ResultLines[1])
                      = (IF RowHasTh(EffectiveHeader)
                         THEN ThTexts(InputRows[EffectiveHeader])
                         ELSE TdTexts(InputRows[EffectiveHeader]))
                /\ IsSeparatorLine(ResultLines[2])


---------------------------------------------------------------------------
(* Lists                                                                   *)

\* the call converts one list, with structure kept
ListInput ==
    /\ fn = "convert_html"
    /\ config.preserve_structure
    /\ NoContainer
    /\ Len(InputTree.kids) = 1
    /\ InputTree.kids[1].tag \in ListTags

InputList == InputTree.kids[1]

\* the lists directly inside the items of the converted list, in a row
InnerLists ==
    Only({Concat([i \in 1..Len(lis) |-> find_children(lis[i], ListTags)]) :
          lis \in {find_children(InputList, {"li"})}})

\* line i of a list of the kind tag whose item holds text
ItemLine(tag, i, text) ==
    (IF tag = "ol" THEN IntToStr(i) \o <<".">> ELSE <<config.bullet_marker>>)
    \o <<SP>> \o text

\* some item of an inner list is in the output with a number or a bullet marker
InnerItemized ==
    \E l \in 1..Len(InnerLists) :
        \E lis \in {find_children(InnerLists[l], {"li"})} :
            \E i \in 1..Len(lis), tag \in ListTags :
                Contains(ItemLine(tag, i, strip(get_text(lis[i]))), result)

\* C21: a list nested inside a list item is never itemized on its own: for every
\* pair of list kinds the inner items are in the output as plain text of the
\* enclosing item, with no number and no bullet marker of their own
C21_NestedListFlattened ==
    (ListInput /\ Returned /\ InnerLists # <<>>) =>
        /\ ~InnerItemized
        /\ \A l \in 1..Len(InnerLists) :
               \A lis \in {find_children(InnerLists[l], {"li"})} :
                   \A i \in 1..Len(lis) :
                       Contains(strip(get_text(lis[i])), result)


\* the tree the list pass receives
PreLists == process_headings(config, Container)

\* the text of an item when the loop of its list reads it: the ul loop runs after
\* every ol of the tree has been rewritten
ItemText(tag, li) ==
    IF tag = "ol" THEN strip(get_text(li))
    ELSE strip(get_text(ReplaceAll(li, {"ol"}, "ol", config)))

\* the lines of a list: one for each direct-child li, in document order
ListLines(l) ==
    Only({join(<<NL>>, [i \in 1..Len(lis) |-> ItemLine(l.tag, i, ItemText(l.tag, lis[i]))]) :
          lis \in {find_children(l, {"li"})}})

\* the texts a list holds outside its direct-child items
OutsideItems(l) ==
    {strip(get_text(l.kids[j])) : j \in {j \in 1..Len(l.kids) : l.kids[j].tag # "li"}}
    \ {<<>>}

ListsConverted == fn = "convert_html" /\ Returned /\ config.preserve_structure

---------------------------------------------------------------------------
(* Code blocks                                                             *)

\* the call converts one pre block, with structure kept
PreInput ==
    /\ fn = "convert_html"
    /\ config.preserve_structure
    /\ NoContainer
    /\ Len(InputTree.kids) = 1
    /\ InputTree.kids[1].tag = "pre"

PreCode == strip(get_text(InputTree.kids[1]))

Fence == Repeat(<<config.fence_char>>, 3)

\* the block as it is rendered by the code-block pass, without the newlines
\* around it
PreBlockText ==
    IF config.code_block_style = "fenced"
    THEN Fence \o <<NL>> \o PreCode \o <<NL>> \o Fence
    ELSE prefixed(<<SP, SP, SP, SP>>, split(PreCode, NL))

\* C23: the rendering of a pre block reaches the returned string intact: the
\* block's text verbatim, runs of spaces and blank lines unchanged, between two
\* fence lines of three fence characters in fenced style, every line prefixed
\* by exactly four spaces in indented style
C23_CodeBlockIntact ==
    (PreInput /\ Returned) => Contains(PreBlockText, result)


---------------------------------------------------------------------------
(* The cleanup step                                                        *)

\* two space characters side by side
DoubleSpace(text) == \E i \in 1..(Len(text) - 1) : text[i] = SP /\ text[i + 1] = SP

WhitespaceOnly(line) == \A i \in 1..Len(line) : IsSpace(line[i])

\* two lines in a row that are blank or hold whitespace only
BlankRun(text) ==
    \E ls \in {OutLines(text)} :
        \E i \in 1..(Len(ls) - 1) : WhitespaceOnly(ls[i]) /\ WhitespaceOnly(ls[i + 1])

\* C24: for every text, texts with character references included, the string
\* _clean_and_format and so convert_html returns has no two consecutive spaces
\* and no run of more than one blank or whitespace-only line
C24_NoSpaceRuns ==
    (fn = "convert_html" /\ Returned) => ~DoubleSpace(result) /\ ~BlankRun(result)


---------------------------------------------------------------------------
(* Inline formatting                                                       *)

\* the inline elements the configuration gives markers to
MarkedTags ==
    {"strong", "b", "em", "i", "s", "del", "code"}
    \cup (IF config.preserve_links /\ config.link_style = "inline" THEN {"a"} ELSE {})

\* an inline element with its Markdown markers
Marked(e) ==
    LET text == strip(get_text(e))
        m == <<config.emphasis_marker>>
    IN  CASE e.tag \in {"strong", "b"} -> m \o m \o text \o m \o m
          [] e.tag \in {"em", "i"} -> m \o text \o m
          [] e.tag \in {"s", "del"} -> <<"~", "~">> \o text \o <<"~", "~">>
          [] e.tag = "code" -> <<BackTick>> \o text \o <<BackTick>>
          [] e.tag = "a" ->
                <<"[">> \o text \o <<"]", "(">>
                \o (IF e.href = Absent THEN <<>> ELSE e.href) \o <<")">>

\* the elements of the converted tree with a tag of tags, the tree's root included
ElementsOf(tags) ==
    (IF Container.tag \in tags THEN <<Container>> ELSE <<>>) \o find_all(Container, tags)

\* the marked inline elements that are children of an element with a tag of tags
InlinesIn(tags) ==
    Only({Concat([i \in 1..Len(hs) |-> find_children(hs[i], MarkedTags)]) :
          hs \in {ElementsOf(tags)}})

FlattenTags ==
    IF config.preserve_structure
    THEN {HeadingTags[i] : i \in 1..6} \cup ListTags \cup {"pre", "blockquote"}
    ELSE {}

\* the elements under n with a tag of tags that stand in no element a
\* structural pass flattens
RECURSIVE Unflattened(_, _, _)
Unflattened(ks, i, tags) ==
    IF i > Len(ks) THEN <<>>
    ELSE (IF ks[i].tag \in FlattenTags THEN <<>>
          ELSE (IF ks[i].tag \in tags THEN <<ks[i]>> ELSE <<>>)
               \o Unflattened(ks[i].kids, 1, tags))
         \o Unflattened(ks, i + 1, tags)

UnflattenedInlines(tags) ==
    Only({Concat([i \in 1..Len(hs) |-> find_children(hs[i], MarkedTags)]) :
          hs \in {(IF Container.tag \in tags THEN <<Container>> ELSE <<>>)
                  \o Unflattened(Container.kids, 1, tags)}})

---------------------------------------------------------------------------
(* Cells per line                                                          *)

\* C26: every pipe-delimited line emitted for one table has the same number of
\* cells: when a header exists, each data row has exactly as many cells as the
\* header line and the separator line
C26_SameCellCount ==
    (SingleTableInput /\ Returned) =>
        \A i \in 1..Len(ResultLines), j \in 1..Len(ResultLines) :
            Len(LineCells(ResultLines[i])) = Len(LineCells(ResultLines[j]))


---------------------------------------------------------------------------
(* Nested tables                                                           *)

\* how many times sub occurs in s
Count(sub, s) ==
    Cardinality({i \in 1..(Len(s) - Len(sub) + 1) : SubSeq(s, i, i + Len(sub) - 1) = sub})

\* the tables of the converted tree that stand inside a cell of another table
InnerTables ==
    Only({Concat([i \in 1..Len(ts) |-> find_all(ts[i], {"table"})]) :
          ts \in {find_all(Container, {"table"})}})

\* the texts of the cells of the inner tables
InnerCellTexts ==
    {strip(get_text(c)) :
        c \in UNION {{cs[k] : k \in 1..Len(cs)} :
                       cs \in {find_all(InnerTables[i], {"td", "th"}) :
                                 i \in 1..Len(InnerTables)}}}

\* C27: when a table is nested inside a cell of another table, each row and
\* each cell text of the inner table is emitted exactly once: inner rows are not
\* emitted again as rows of the outer table, inner text is not duplicated
C27_InnerTableOnce ==
    (fn = "convert_html" /\ Returned /\ TablePassRuns /\ InnerTables # <<>>) =>
        \A t \in InnerCellTexts : Count(t, result) = 1


---------------------------------------------------------------------------
(* A selected container and its markup converted on its own               *)

\* convert_html(outer markup of the first matching element)
ConvertedAlone == WholeConversion(config, Document(<<FirstMatch>>))

\* C28: selecting a container is equivalent to converting that element's markup
\* on its own: for every document and every matching selector,
\* convert_html(document, selector) equals convert_html(outer markup of the
\* first matching element), also when that element is itself a heading, list,
\* table, pre, blockquote, paragraph or inline-formatting element
C28_ContainerAsDocument ==
    (/\ fn = "convert_html"
     /\ Returned
     /\ content.kind \in {"str", "soup"}
     /\ SelectorMatches
     /\ ~tables_raise(config, Document(<<FirstMatch>>))) =>
        result = ConvertedAlone


---------------------------------------------------------------------------
(* Inline markup inside structural elements                                *)

\* the inline elements at any depth inside a heading, a list item, a pre block
\* or a blockquote of the converted tree
StructureInlines ==
    Only({Concat([i \in 1..Len(hs) |-> find_all(hs[i], InlineTags)]) :
          hs \in {ElementsOf({HeadingTags[i] : i \in 1..6}
                             \cup {"li", "pre", "blockquote"})}})

\* C29: with preserve_structure true, inline markup nested inside a heading, a
\* list item, a pre block or a blockquote is emitted as plain text, with no
\* emphasis, strikethrough, code or link markers and without a link's href,
\* since the structural passes flatten their subtree before the inline pass
\* runs; the same markup in a paragraph or a table cell keeps its markers
C29_StructureFlattensInline ==
    (fn = "convert_html" /\ Returned /\ config.preserve_structure) =>
        /\ \A i \in 1..Len(StructureInlines) :
               \E e \in {StructureInlines[i]} :
                   /\ Contains(strip(get_text(e)), result)
                   /\ ~Contains(Marked(e), result)
                   /\ e.tag = "a" => ~Contains(<<"(">> \o e.href \o <<")">>, result)
        /\ \A es \in {UnflattenedInlines({"p", "td", "th"})} :
               \A i \in 1..Len(es) :
                   Contains(strip(get_text(es[i])), result)
                       => Contains(Marked(es[i]), result)


---------------------------------------------------------------------------
(* A tree converted twice                                                  *)

\* the call converts the tree object a first call has already converted
SecondTreeCall ==
    /\ fn = "convert_html"
    /\ content.kind = "soup"
    /\ Len(session.calls) = 1
    /\ session.calls[1].content.kind = "soup"

FirstTree == session.calls[1].content.markup

\* the positions of a call at which the passes have started on the container
InPasses ==
    pc \in {"process_headings", "process_lists", "process_tables",
            "process_code_blocks", "process_blockquotes",
            "process_horizontal_rules", "process_basic_formatting",
            "process_paragraphs_final", "clean_and_format", "returned"}

\* C30: converting a pre-parsed tree rewrites that tree in place, and
\* converting the same tree object a second time, with the same config and
\* selector, returns exactly the string of the first call: the converted tree
\* is a fixed point of all passes, and nodes outside the selected container
\* are never modified
C30_ConvertedTreeFixedPoint ==
    SecondTreeCall =>
        /\ Terminated => Returned /\ result = session.calls[1].result
        /\ InPasses => soup = container_of(content.markup, selector)
        /\ tree_after(content.markup, selector, container_of(FirstTree, selector))
               = FirstTree
        /\ (FirstTree # content.markup) =>
               container_of(content.markup, selector)
                   # container_of(FirstTree, selector)

C30_Witness ==
    /\ SecondTreeCall
    /\ Returned
    /\ selector = "div"
    /\ FirstTree # content.markup
    /\ \E i \in 1..Len(FirstTree.kids) :
           /\ FirstTree.kids[i].tag # "div"
           /\ ~IsText(FirstTree.kids[i])
           /\ content.markup.kids[i] = FirstTree.kids[i]
    /\ result # <<NL>>

=============================================================================
